---- MODULE Spec2Model ----
(***************************************************************************)
(* A model of github.com/expgo/generic: the memoizing Cache (cache.go), the *)
(* sync.Map-backed generic.Map it is built on (map.go) and the RWMutex-     *)
(* backed gmap.Map (gmap/map.go).  Spec is the Cache, SpecWarm the Cache    *)
(* with a key already cached, SpecKeys the Cache with a key cached and an   *)
(* evicted key's entry left in read, SpecFair the Cache under a fair        *)
(* scheduler.  SpecMap is the generic.Map under LoadOrStore and             *)
(* LoadAndDelete, SpecCas adds CompareAndSwap, SpecRange adds Range and     *)
(* Size.  SpecGmap is the gmap.Map under LoadOrStore and LoadAndDelete,     *)
(* SpecGmapRange under Range with visitors that store and delete, SpecLad   *)
(* sets LoadAndDelete of the two maps side by side.  SpecProgress is the    *)
(* Cache under a fair scheduler with a loader that may run for ever,        *)
(* SpecTorn the Cache after a Clear that raced with a GetOrLoad, SpecPanic  *)
(* the Cache with a loader that panics, SpecNested the Cache with loaders   *)
(* that call GetOrLoad themselves, SpecGmapVisit the gmap.Map under Range   *)
(* with visitors that call the map.  SpecSet is the generic.Set (set.go)    *)
(* under calls made one after the other, SpecStream the left fold           *)
(* Stream.ReduceWithInit (stream/stream.go).                                *)
(*                                                                          *)
(* generic.Map delegates every operation to sync.Map (go.mod: go 1.20), so  *)
(* the map is modelled at the level of sync.Map's fields: mu, read, dirty,  *)
(* misses, and the entries the two maps point to.  A goroutine's lock-free  *)
(* fast path is one step; a slow path is two steps (Lock and load of read,  *)
(* then the locked body with Unlock).  Cache.Clear overwrites the struct    *)
(* without any synchronisation: it is modelled as writes of the fields, in  *)
(* any order and any grouping, interleaved with the other goroutines.       *)
(***************************************************************************)
EXTENDS Integers, Sequences, FiniteSets, TLC

\* ------------------------------------------------------------------ bounds
Procs == {1, 2}
KeySet == {"k1", "k2"}
\* fA returns (<<"A", k>>, nil); fE returns (zero, "E").
Loaders == {"fA", "fE"}
\* fP panics.
Panicker == "fP"
\* fS(k) returns what c.GetOrLoad(k, fA) returns, c being the Cache it is
\* run by; fO(k) returns what c.GetOrLoad(k2, fA) returns, k2 the other key.
Reentrant == {"fS", "fO"}
NilFunc == "nilfunc"
\* The number of calls the goroutines start in one behaviour.
MaxCalls == 3

\* --------------------------------------------------------------- constants
\* Values (cells in a Cache, plain values in a Map) and entries are positive
\* integers; the pointer states of an entry and the nil map are kept apart
\* from them.
NoEntry == 0
NilP == 0
Expunged == -1
NilAny == 0
NilMap == [nilmap \in {"nil"} |-> NoEntry]
\* The elements of a Set and of a Stream.
Elems == 0..2
\* The zero Set: a nil item list and an empty sync.Map.
ZeroSet == [itemList |-> <<>>, elemMap |-> [e \in Elems |-> NilAny]]
\* The zero Stream: no elements, no error.
ZeroStream == [elems |-> <<>>, err |-> "noerr"]
Zero == <<"zero", "">>
NoErr == "noerr"
None == "none"

VARIABLES
    innerMap,   \* Cache.innerMap: the sync.Map struct [mu, read, dirty, misses]
    entries,    \* the heap of sync.Map entries: entries[e] is entry e's p
    items,      \* the heap of innerItem cells: [value, err, done, locked]
    pc,         \* each goroutine's position
    arg,        \* each goroutine's current (or last) call: [op, k, f, v]
    item,       \* GetOrLoad's local item: the cell LoadOrStore returned
    rd,         \* a slow path's local read, loaded under the lock
    todo,       \* Range's local iteration: the (key, entry) pairs left
    results,    \* Keys' local results
    ret,        \* what the goroutine's last call returned
    ncalls,     \* calls started
    crashed,    \* the runtime has thrown a fatal error
    gm,         \* a gmap.Map: items and the state of its lock [w, r]
    cellinfo,   \* history: per cell, its key and the loaders invoked on it
    hist,       \* history: what the calls so far have established (see HInit)
    obs,        \* history: what the map has held during a Range in flight
    set,        \* a generic.Set: [itemList, elemMap]
    strm        \* a stream.Stream: [elems, err]

vars == <<innerMap, entries, items, pc, arg, item, rd, todo, results, ret,
          ncalls, crashed, gm, cellinfo, hist, obs, set, strm>>

\* The goroutines, and the frames of the calls their loaders make.
Frames == DOMAIN pc

\* The Set and the Stream, which the operations of the Cache and of the maps
\* leave alone.
libVars == <<set, strm>>

\* What the operations of the gmap.Map leave alone.
syncMapVars == <<innerMap, entries, items, item, rd, todo, results, crashed, cellinfo, obs,
                 libVars>>

\* ------------------------------------------------------------ sync.Map
EmptyM == [k \in KeySet |-> NoEntry]
ZeroReadOnly == [m |-> EmptyM, amended |-> FALSE]
ZeroMap == [mu |-> FALSE, read |-> ZeroReadOnly, dirty |-> NilMap, misses |-> 0]
MapFields == {"mu", "read", "dirty", "misses"}

MapGet(m, k) == IF m = NilMap THEN NoEntry ELSE m[k]
MapLen(m) == IF m = NilMap THEN 0 ELSE Cardinality({k \in KeySet : m[k] # NoEntry})
MapOrEmpty(m) == IF m = NilMap THEN EmptyM ELSE m

\* entry.load
entryLoad(es, e) ==
    IF es[e] \in {NilP, Expunged} THEN [value |-> NilAny, ok |-> FALSE]
    ELSE [value |-> es[e], ok |-> TRUE]

\* A tryLoadOrStore that stores its value whatever the entry holds.
tryStoreAlways(es, e, v) ==
    IF es[e] = Expunged
    THEN [es |-> es, actual |-> NilAny, loaded |-> FALSE, ok |-> FALSE]
    ELSE [es |-> [es EXCEPT ![e] = v], actual |-> v, loaded |-> FALSE, ok |-> TRUE]

\* entry.tryLoadOrStore
tryLoadOrStore(es, e, v) ==
    IF es[e] = Expunged THEN [es |-> es, actual |-> NilAny, loaded |-> FALSE, ok |-> FALSE]
    ELSE IF es[e] # NilP THEN [es |-> es, actual |-> es[e], loaded |-> TRUE, ok |-> TRUE]
    ELSE [es |-> [es EXCEPT ![e] = v], actual |-> v, loaded |-> FALSE, ok |-> TRUE]

\* A delete that loads the value and leaves it in the entry.
entryPeek(es, e) ==
    IF es[e] \in {NilP, Expunged} THEN [es |-> es, value |-> NilAny, ok |-> FALSE]
    ELSE [es |-> es, value |-> es[e], ok |-> TRUE]

\* entry.delete
entryDelete(es, e) ==
    IF es[e] \in {NilP, Expunged} THEN [es |-> es, value |-> NilAny, ok |-> FALSE]
    ELSE [es |-> [es EXCEPT ![e] = NilP], value |-> es[e], ok |-> TRUE]

\* Map.missLocked
missLocked(sm) ==
    IF sm.misses + 1 < MapLen(sm.dirty)
    THEN [sm EXCEPT !.misses = sm.misses + 1]
    ELSE [sm EXCEPT !.read = [m |-> MapOrEmpty(sm.dirty), amended |-> FALSE],
                    !.dirty = NilMap, !.misses = 0]

\* Map.dirtyLocked (with entry.tryExpungeLocked on every entry of read)
dirtyLocked(sm, es) ==
    IF sm.dirty # NilMap THEN [sm |-> sm, es |-> es]
    ELSE LET rm == sm.read.m
             kept(k) == rm[k] # NoEntry /\ es[rm[k]] \notin {NilP, Expunged}
         IN [sm |-> [sm EXCEPT !.dirty = [k \in KeySet |-> IF kept(k) THEN rm[k] ELSE NoEntry]],
             es |-> [e \in DOMAIN es |->
                       IF es[e] = NilP /\ (\E k \in KeySet : rm[k] = e)
                       THEN Expunged ELSE es[e]]]

\* A locked body of LoadOrStore that does not look the key up in dirty.
LoadOrStoreLockedBlind(sm, es, r, k, v) ==
    IF r.m[k] # NoEntry THEN
        LET e == r.m[k]
            unexp == es[e] = Expunged
            es1 == IF unexp THEN [es EXCEPT ![e] = NilP] ELSE es
        IN IF unexp /\ sm.dirty = NilMap
           THEN [sm |-> sm, es |-> es1, actual |-> NilAny, loaded |-> FALSE, panic |-> TRUE]
           ELSE LET sm1 == IF unexp THEN [sm EXCEPT !.dirty[k] = e] ELSE sm
                    t == tryLoadOrStore(es1, e, v)
                IN [sm |-> sm1, es |-> t.es, actual |-> t.actual,
                    loaded |-> t.loaded, panic |-> FALSE]
    ELSE
        LET d == IF r.amended THEN [sm |-> sm, es |-> es] ELSE dirtyLocked(sm, es)
            sm1 == IF r.amended THEN d.sm
                   ELSE [d.sm EXCEPT !.read = [m |-> r.m, amended |-> TRUE]]
        IN IF sm1.dirty = NilMap
           THEN [sm |-> sm1, es |-> d.es, actual |-> NilAny, loaded |-> FALSE, panic |-> TRUE]
           ELSE [sm |-> [sm1 EXCEPT !.dirty[k] = Len(d.es) + 1], es |-> Append(d.es, v),
                 actual |-> v, loaded |-> FALSE, panic |-> FALSE]

\* The locked body of sync.Map.LoadOrStore, r being the read loaded under
\* the lock.  panic: an assignment to an entry of a nil map.
LoadOrStoreLocked(sm, es, r, k, v) ==
    IF r.m[k] # NoEntry THEN
        LET e == r.m[k]
            unexp == es[e] = Expunged
            es1 == IF unexp THEN [es EXCEPT ![e] = NilP] ELSE es
        IN IF unexp /\ sm.dirty = NilMap
           THEN [sm |-> sm, es |-> es1, actual |-> NilAny, loaded |-> FALSE, panic |-> TRUE]
           ELSE LET sm1 == IF unexp THEN [sm EXCEPT !.dirty[k] = e] ELSE sm
                    t == tryLoadOrStore(es1, e, v)
                IN [sm |-> sm1, es |-> t.es, actual |-> t.actual,
                    loaded |-> t.loaded, panic |-> FALSE]
    ELSE IF MapGet(sm.dirty, k) # NoEntry THEN
        LET t == tryLoadOrStore(es, sm.dirty[k], v)
        IN [sm |-> missLocked(sm), es |-> t.es, actual |-> t.actual,
            loaded |-> t.loaded, panic |-> FALSE]
    ELSE
        LET d == IF r.amended THEN [sm |-> sm, es |-> es] ELSE dirtyLocked(sm, es)
            sm1 == IF r.amended THEN d.sm
                   ELSE [d.sm EXCEPT !.read = [m |-> r.m, amended |-> TRUE]]
        IN IF sm1.dirty = NilMap
           THEN [sm |-> sm1, es |-> d.es, actual |-> NilAny, loaded |-> FALSE, panic |-> TRUE]
           ELSE [sm |-> [sm1 EXCEPT !.dirty[k] = Len(d.es) + 1], es |-> Append(d.es, v),
                 actual |-> v, loaded |-> FALSE, panic |-> FALSE]

\* The locked body of sync.Map.LoadAndDelete, followed by entry.delete
\* (which works on an entry that either is out of the map by then or was
\* only looked up under the lock).
LoadAndDeleteLocked(sm, es, r, k) ==
    LET viaDirty == r.m[k] = NoEntry /\ r.amended
        e == IF viaDirty THEN MapGet(sm.dirty, k) ELSE r.m[k]
        sm1 == IF viaDirty
               THEN missLocked(IF sm.dirty = NilMap THEN sm
                               ELSE [sm EXCEPT !.dirty[k] = NoEntry])
               ELSE sm
        d == IF e = NoEntry THEN [es |-> es, value |-> NilAny, ok |-> FALSE]
             ELSE entryDelete(es, e)
    IN [sm |-> sm1, es |-> d.es, value |-> d.value, loaded |-> d.ok]

\* entry.tryCompareAndSwap
tryCompareAndSwap(es, e, old, new) ==
    IF es[e] \in {NilP, Expunged} \/ es[e] # old THEN [es |-> es, ok |-> FALSE]
    ELSE [es |-> [es EXCEPT ![e] = new], ok |-> TRUE]

\* A locked body of CompareAndSwap that swaps without comparing.
CompareAndSwapLockedAlways(sm, es, r, k, old, new) ==
    LET e == IF r.m[k] # NoEntry THEN r.m[k] ELSE MapGet(sm.dirty, k)
    IN IF e = NoEntry \/ es[e] \in {NilP, Expunged}
       THEN [sm |-> sm, es |-> es, swapped |-> FALSE]
       ELSE [sm |-> sm, es |-> [es EXCEPT ![e] = new], swapped |-> TRUE]

\* The locked body of sync.Map.CompareAndSwap, r being the read loaded
\* under the lock.
CompareAndSwapLocked(sm, es, r, k, old, new) ==
    IF r.m[k] # NoEntry THEN
        LET t == tryCompareAndSwap(es, r.m[k], old, new)
        IN [sm |-> sm, es |-> t.es, swapped |-> t.ok]
    ELSE IF MapGet(sm.dirty, k) # NoEntry THEN
        LET t == tryCompareAndSwap(es, sm.dirty[k], old, new)
        IN [sm |-> missLocked(sm), es |-> t.es, swapped |-> t.ok]
    ELSE [sm |-> sm, es |-> es, swapped |-> FALSE]

\* sync.Map.Load as Map.Load returns it: the value under k, or NilAny.
MapLoad(sm, es, k) ==
    LET e == IF sm.read.m[k] # NoEntry THEN sm.read.m[k]
             ELSE IF sm.read.amended THEN MapGet(sm.dirty, k) ELSE NoEntry
    IN IF e # NoEntry /\ entryLoad(es, e).ok THEN es[e] ELSE NilAny

\* The pairs a Range over the map m of entries iterates.
RangePairs(m) == {<<k, m[k]>> : k \in {x \in KeySet : m[x] # NoEntry}}

\* What a Load of each key finds, and the keys under which it finds a value.
Contents(sm, es) == [k \in KeySet |-> MapLoad(sm, es, k)]
KeysOf(c) == {k \in KeySet : c[k] # NilAny}

\* ------------------------------------------------------------ cache.go
NewItem == [value |-> Zero, err |-> NoErr, done |-> FALSE, locked |-> FALSE]
LoaderResult(f, k) ==
    IF f = "fA" THEN [value |-> <<"A", k>>, err |-> NoErr]
    ELSE [value |-> Zero, err |-> "E"]
Pair(its, c) == [value |-> its[c].value, err |-> its[c].err]
NoPair == [value |-> Zero, err |-> None]
NoArg == [op |-> None, k |-> None, f |-> None, v |-> 0]

\* ------------------------------------------------------------- history
\* hist records, of the calls made so far, what the properties speak of:
\*   evicts    the keys Evict has been called on
\*   clears    Clear has been called
\*   nevict    per key, the number of calls of Evict (of LoadAndDelete, on
\*             a Map) that returned true
\*   nclear    the number of calls of Clear
\*   cutoff    the cells that existed when a Clear that has returned began
\*   settled   per key, the pair a GetOrLoad returned, no step of an
\*             Evict of the key or of a Clear having been taken since
\*   firm      the same, for a GetOrLoad during which none was taken either
\*   gone      per key, "evict": the last call on the key was an Evict that
\*             returned true and overlapped no call; "clear": a Clear likewise
\*   late      per call, 1: it began with the key settled, 2: firm, and no
\*             step of an Evict of the key or of a Clear was taken since
\*   clean     per call, no such step was taken since it began
\*   solo      per call, "no": it has overlapped another call; otherwise
\*             "solo", or what gone said of its key when it began
\*   tick      per goroutine, flipped by every call that returns at once
\*   los       per key, what the calls of LoadOrStore that have returned were
\*             passed and returned: [v, actual, loaded]
\*   beat      per call of CompareAndSwap(k, old, .) in flight: "no", or
\*             "same" / "other" once a call of CompareAndSwap(k, old, new) that
\*             ran together with it returned true, with new = old / new # old
HInitOn(S) ==
    [evicts |-> {}, clears |-> FALSE, cutoff |-> 0,
     nevict |-> [k \in KeySet |-> 0], nclear |-> 0,
     settled |-> [k \in KeySet |-> NoPair],
     firm |-> [k \in KeySet |-> NoPair],
     gone |-> [k \in KeySet |-> "no"],
     late |-> [p \in S |-> 0],
     clean |-> [p \in S |-> FALSE],
     solo |-> [p \in S |-> "no"],
     tick |-> [p \in S |-> 0],
     los |-> [k \in KeySet |-> {}],
     beat |-> [p \in S |-> "no"]]

HInit == HInitOn(Procs)

InFlight(q) == pc[q] # "idle"

\* A call of p begins: it is solo when no other call is in flight, and the
\* calls in flight are solo no longer.
HStart(h, p, what) ==
    [h EXCEPT !.solo = [q \in Frames |->
                  IF q # p THEN "no"
                  ELSE IF \A o \in Frames \ {p} : ~InFlight(o) THEN what ELSE "no"]]

\* A step of an Evict of a key of K, or of a Clear (K = KeySet).
HDisturb(h, K) ==
    [h EXCEPT !.settled = [k \in KeySet |-> IF k \in K THEN NoPair ELSE h.settled[k]],
              !.firm = [k \in KeySet |-> IF k \in K THEN NoPair ELSE h.firm[k]],
              !.gone = [k \in KeySet |-> IF k \in K THEN "no" ELSE h.gone[k]],
              !.late = [q \in Frames |-> IF arg[q].k \in K THEN 0 ELSE h.late[q]],
              !.clean = [q \in Frames |-> IF arg[q].k \in K THEN FALSE ELSE h.clean[q]]]

HEnd(h, p) == [h EXCEPT !.late[p] = 0, !.clean[p] = FALSE, !.solo[p] = "no"]
HTick(h, p) == [h EXCEPT !.tick[p] = 1 - h.tick[p]]
HLoadOrStore(h, k, v, actual, loaded) ==
    [h EXCEPT !.los[k] = h.los[k] \cup {[v |-> v, actual |-> actual, loaded |-> loaded]}]

\* p's CompareAndSwap(k, old, new) returns ok.
HCompareAndSwap(h, p, k, old, new, ok) ==
    [h EXCEPT !.beat = [q \in Frames |->
        IF q = p THEN "no"
        ELSE IF ok /\ pc[q] \in {"cas_lock", "cas_apply"} /\ arg[q].k = k /\ arg[q].old = old
                /\ h.beat[q] # "other"
        THEN (IF new = old THEN "same" ELSE "other")
        ELSE h.beat[q]]]

HGetStart(h, p, k) ==
    LET h1 == HStart(h, p, IF h.gone[k] # "no" THEN h.gone[k] ELSE "solo")
    IN [h1 EXCEPT !.late[p] = IF h.firm[k] # NoPair THEN 2
                               ELSE IF h.settled[k] # NoPair THEN 1 ELSE 0,
                  !.clean[p] = TRUE,
                  !.gone[k] = "no"]

HGetReturn(h, p, k, r) ==
    HEnd([h EXCEPT !.settled[k] = IF h.settled[k] = NoPair THEN r ELSE h.settled[k],
                   !.firm[k] = IF h.firm[k] = NoPair /\ h.clean[p] THEN r ELSE h.firm[k]],
         p)

HEvictStart(h, p, k) ==
    LET h1 == HDisturb(HStart(h, p, "solo"), {k})
    IN [h1 EXCEPT !.evicts = h.evicts \cup {k}]

HEvictReturn(h, p, k, ok) ==
    LET h1 == HDisturb(h, {k})
    IN HEnd([h1 EXCEPT !.gone[k] = IF h.solo[p] # "no" /\ ok THEN "evict" ELSE "no",
                       !.nevict[k] = IF ok THEN @ + 1 ELSE @], p)

HClearStart(h, p) ==
    [HDisturb(HStart(h, p, "solo"), KeySet) EXCEPT !.clears = TRUE, !.nclear = @ + 1]

HClearReturn(h, p, n) ==
    LET h1 == HDisturb(h, KeySet)
    IN HEnd([h1 EXCEPT !.gone = [k \in KeySet |-> IF h.solo[p] # "no" THEN "clear" ELSE "no"],
                       !.cutoff = IF n > h.cutoff THEN n ELSE h.cutoff], p)

HKeysStart(h, p) ==
    HStart(h, p, IF \A k \in KeySet : h.gone[k] = "clear" THEN "clear" ELSE "solo")

\* obs records, for each call of Range (Keys and Size are calls of Range)
\* that is in flight:
\*   first     for Map.Range, what the map held when the call was made
\*   seen      the key sets the map has had from then on
RangePcs == {"rng_lock", "rng_apply", "rng_iter"}
NoObs == [first |-> EmptyM, seen |-> {}]
Observe ==
    obs' = [p \in Frames |->
              IF pc'[p] \notin RangePcs THEN NoObs
              ELSE IF pc[p] \in RangePcs
              THEN [obs[p] EXCEPT !.seen = @ \cup {KeysOf(Contents(innerMap', entries'))}]
              ELSE [first |-> IF arg'[p].op = "Range" THEN Contents(innerMap, entries)
                              ELSE EmptyM,
                    seen |-> {KeysOf(Contents(innerMap, entries)),
                              KeysOf(Contents(innerMap', entries'))}]]

\* --------------------------------------------------------------- Cache
Init ==
    /\ innerMap = ZeroMap
    /\ entries = <<>>
    /\ items = <<>>
    /\ pc = [p \in Procs |-> "idle"]
    /\ arg = [p \in Procs |-> NoArg]
    /\ item = [p \in Procs |-> 0]
    /\ rd = [p \in Procs |-> ZeroReadOnly]
    /\ todo = [p \in Procs |-> {}]
    /\ results = [p \in Procs |-> <<>>]
    /\ ret = [p \in Procs |-> <<None>>]
    /\ ncalls = 0
    /\ crashed = FALSE
    /\ gm = [items |-> [k \in KeySet |-> NilAny], w |-> FALSE, r |-> 0]
    /\ cellinfo = <<>>
    /\ hist = HInit
    /\ obs = [p \in Procs |-> NoObs]
    /\ set = ZeroSet
    /\ strm = ZeroStream

CanStart(p) == pc[p] = "idle" /\ ~crashed /\ ncalls < MaxCalls

\* The value a goroutine's LoadOrStore passes: GetOrLoad passes a new cell,
\* &innerItem[V]{}, which gets its place in the heap when it is stored.
StoreVal(p) == IF arg[p].op = "GetOrLoad" THEN Len(items) + 1 ELSE arg[p].v

\* The heap after a LoadOrStore of a call of key k that returned
\* (actual, loaded): GetOrLoad's new cell is kept when it was stored.
Stored(op, k, loaded, panicked) ==
    IF op = "GetOrLoad" /\ ~loaded /\ ~panicked
    THEN /\ items' = Append(items, NewItem)
         /\ cellinfo' = Append(cellinfo, [k |-> k, invoked |-> <<>>])
    ELSE UNCHANGED <<items, cellinfo>>

\* Where a finished Map.LoadOrStore continues: Map.LoadOrStore returns
\* (item.(V), loaded); GetOrLoad goes on to the once.Do of the cell it got;
\* a panic unwinds the call.  a is the call, h the history so far.
AfterLoadOrStore(p, a, actual, loaded, panicked, h) ==
    IF panicked \/ actual = NilAny
    THEN /\ pc' = [pc EXCEPT ![p] = "idle"]
         /\ ret' = [ret EXCEPT ![p] = <<"panic">>]
         /\ item' = item
         /\ hist' = HEnd(h, p)
    ELSE IF a.op = "LoadOrStore"
    THEN /\ pc' = [pc EXCEPT ![p] = "idle"]
         /\ ret' = [ret EXCEPT ![p] = <<"los", actual, loaded>>]
         /\ item' = item
         /\ hist' = HLoadOrStore(h, a.k, a.v, actual, loaded)
    ELSE /\ pc' = [pc EXCEPT ![p] = "once"]
         /\ item' = [item EXCEPT ![p] = actual]
         /\ ret' = [ret EXCEPT ![p] = <<None>>]
         /\ hist' = h

\* GetOrLoad line 23: the new cell and the lock-free path of LoadOrStore.
GetItem(p, k) ==
    LET e == innerMap.read.m[k]
        t == tryLoadOrStore(entries, e, Len(items) + 1)
    IN /\ IF e # NoEntry /\ t.ok
          THEN /\ entries' = t.es
               /\ Stored("GetOrLoad", k, t.loaded, FALSE)
               /\ AfterLoadOrStore(p, arg'[p], t.actual, t.loaded, FALSE, HGetStart(hist, p, k))
          ELSE /\ pc' = [pc EXCEPT ![p] = "los_lock"]
               /\ ret' = [ret EXCEPT ![p] = <<None>>]
               /\ hist' = HGetStart(hist, p, k)
               /\ UNCHANGED <<entries, item, items, cellinfo>>
       /\ UNCHANGED <<innerMap, rd, todo, results, crashed>>

\* A GetOrLoad without the check of lines 19-21.
GetOrLoadUnchecked(p, k, f) ==
    /\ CanStart(p)
    /\ ncalls' = ncalls + 1
    /\ arg' = [arg EXCEPT ![p] = [op |-> "GetOrLoad", k |-> k, f |-> f, v |-> hist.cutoff]]
    /\ GetItem(p, k)
    /\ UNCHANGED <<gm, libVars>>
    /\ Observe

\* GetOrLoad, lines 18-23: the nil check, then the lookup of the cell.
\* arg.v keeps the cells that returned Clears had found when the call began.
GetOrLoad(p, k, f) ==
    /\ CanStart(p)
    /\ ncalls' = ncalls + 1
    /\ arg' = [arg EXCEPT ![p] = [op |-> "GetOrLoad", k |-> k, f |-> f, v |-> hist.cutoff]]
    /\ IF f = NilFunc
       THEN /\ ret' = [ret EXCEPT ![p] = <<"panic">>]
            /\ hist' = HTick(hist, p)
            /\ UNCHANGED <<innerMap, entries, items, pc, item, rd, todo, results,
                           crashed, cellinfo>>
       ELSE GetItem(p, k)
    /\ UNCHANGED <<gm, libVars>>
    /\ Observe

\* sync.Map.LoadOrStore: m.mu.Lock(); read = m.loadReadOnly()
LosLock(p) ==
    /\ pc[p] = "los_lock" /\ ~crashed
    /\ ~innerMap.mu
    /\ innerMap' = [innerMap EXCEPT !.mu = TRUE]
    /\ rd' = [rd EXCEPT ![p] = innerMap.read]
    /\ pc' = [pc EXCEPT ![p] = "los_apply"]
    /\ UNCHANGED <<entries, items, arg, item, todo, results, ret, ncalls, crashed,
                   cellinfo, hist>>
    /\ UNCHANGED <<gm, libVars>>
    /\ Observe

\* sync.Map.LoadOrStore: the locked body and m.mu.Unlock().  Unlocking a
\* mutex that a Clear has zeroed in between is a fatal error.
LosApply(p) ==
    /\ pc[p] = "los_apply" /\ ~crashed
    /\ LET o == LoadOrStoreLocked(innerMap, entries, rd[p], arg[p].k, StoreVal(p))
       IN /\ entries' = o.es
          /\ rd' = [rd EXCEPT ![p] = ZeroReadOnly]
          /\ Stored(arg[p].op, arg[p].k, o.loaded, o.panic)
          /\ IF o.panic
             THEN /\ innerMap' = o.sm
                  /\ crashed' = crashed
                  /\ AfterLoadOrStore(p, arg[p], o.actual, o.loaded, TRUE, hist)
             ELSE IF ~o.sm.mu
             THEN /\ innerMap' = o.sm
                  /\ crashed' = TRUE
                  /\ UNCHANGED <<pc, item, ret, hist>>
             ELSE /\ innerMap' = [o.sm EXCEPT !.mu = FALSE]
                  /\ crashed' = crashed
                  /\ AfterLoadOrStore(p, arg[p], o.actual, o.loaded, FALSE, hist)
    /\ UNCHANGED <<arg, todo, results, ncalls>>
    /\ UNCHANGED <<gm, libVars>>
    /\ Observe

\* A return that looks the key up in the map again for the cell to read.
ReturnFromMap(p, its) ==
    LET c == MapLoad(innerMap, entries, arg[p].k)
        r == IF c = NilAny THEN [value |-> Zero, err |-> NoErr] ELSE Pair(its, c)
    IN /\ pc' = [pc EXCEPT ![p] = "idle"]
       /\ ret' = [ret EXCEPT ![p] = <<"pair", r>>]
       /\ item' = [item EXCEPT ![p] = 0]
       /\ hist' = HGetReturn(hist, p, arg[p].k, r)

\* GetOrLoad line 29: return item.value, item.err
Return(p, its) ==
    /\ pc' = [pc EXCEPT ![p] = "idle"]
    /\ ret' = [ret EXCEPT ![p] = <<"pair", Pair(its, item[p])>>]
    /\ item' = [item EXCEPT ![p] = 0]
    /\ hist' = HGetReturn(hist, p, arg[p].k, Pair(its, item[p]))

\* once.Do: if atomic.LoadUint32(&o.done) == 0 { o.doSlow(f) }
OnceDo(p) ==
    /\ pc[p] = "once" /\ ~crashed
    /\ IF items[item[p]].done
       THEN Return(p, items)
       ELSE /\ pc' = [pc EXCEPT ![p] = "doSlow"]
            /\ UNCHANGED <<ret, item, hist>>
    /\ UNCHANGED <<innerMap, entries, items, arg, rd, todo, results, ncalls,
                   crashed, cellinfo>>
    /\ UNCHANGED <<gm, libVars>>
    /\ Observe

\* A doSlow that takes no lock and does not look at done again.
DoSlowUnguarded(p) ==
    /\ pc[p] = "doSlow" /\ ~crashed
    /\ items' = items
    /\ cellinfo' = [cellinfo EXCEPT ![item[p]].invoked = Append(@, arg[p].f)]
    /\ pc' = [pc EXCEPT ![p] = "loading"]
    /\ UNCHANGED <<ret, item, hist>>
    /\ UNCHANGED <<innerMap, entries, arg, rd, todo, results, ncalls, crashed>>
    /\ UNCHANGED <<gm, libVars>>
    /\ Observe

\* A doSlow that gives up when the once's mutex is held: the call returns
\* what the cell holds by then.
DoSlowTryLock(p) ==
    /\ pc[p] = "doSlow" /\ ~crashed
    /\ IF items[item[p]].done \/ items[item[p]].locked
       THEN /\ Return(p, items)
            /\ UNCHANGED <<items, cellinfo>>
       ELSE /\ items' = [items EXCEPT ![item[p]].locked = TRUE]
            /\ cellinfo' = [cellinfo EXCEPT ![item[p]].invoked = Append(@, arg[p].f)]
            /\ pc' = [pc EXCEPT ![p] = "loading"]
            /\ UNCHANGED <<ret, item, hist>>
    /\ UNCHANGED <<innerMap, entries, arg, rd, todo, results, ncalls, crashed>>
    /\ UNCHANGED <<gm, libVars>>
    /\ Observe

\* A doSlow that stores done before it calls the loader.
DoSlowDoneFirst(p) ==
    /\ pc[p] = "doSlow" /\ ~crashed
    /\ ~items[item[p]].locked
    /\ IF items[item[p]].done
       THEN /\ Return(p, items)
            /\ UNCHANGED <<items, cellinfo>>
       ELSE /\ items' = [items EXCEPT ![item[p]].locked = TRUE, ![item[p]].done = TRUE]
            /\ cellinfo' = [cellinfo EXCEPT ![item[p]].invoked = Append(@, arg[p].f)]
            /\ pc' = [pc EXCEPT ![p] = "loading"]
            /\ UNCHANGED <<ret, item, hist>>
    /\ UNCHANGED <<innerMap, entries, arg, rd, todo, results, ncalls, crashed>>
    /\ UNCHANGED <<gm, libVars>>
    /\ Observe

\* once.doSlow: o.m.Lock(); if o.done == 0 { f() }: the loader is invoked.
DoSlow(p) ==
    /\ pc[p] = "doSlow" /\ ~crashed
    /\ ~items[item[p]].locked
    /\ IF items[item[p]].done
       THEN /\ Return(p, items)
            /\ UNCHANGED <<items, cellinfo>>
       ELSE /\ items' = [items EXCEPT ![item[p]].locked = TRUE]
            /\ cellinfo' = [cellinfo EXCEPT ![item[p]].invoked = Append(@, arg[p].f)]
            /\ pc' = [pc EXCEPT ![p] = "loading"]
            /\ UNCHANGED <<ret, item, hist>>
    /\ UNCHANGED <<innerMap, entries, arg, rd, todo, results, ncalls, crashed>>
    /\ UNCHANGED <<gm, libVars>>
    /\ Observe

\* A once that never stores done.
LoaderReturnUnfired(p) ==
    /\ pc[p] = "loading" /\ ~crashed
    /\ LET r == LoaderResult(arg[p].f, arg[p].k)
       IN items' = [items EXCEPT ![item[p]] =
                       [value |-> r.value, err |-> r.err, done |-> FALSE, locked |-> FALSE]]
    /\ Return(p, items')
    /\ UNCHANGED <<innerMap, entries, arg, rd, todo, results, ncalls, crashed, cellinfo>>
    /\ UNCHANGED <<gm, libVars>>
    /\ Observe

\* A once that stays unfired when the loader returned an error.
LoaderReturnRetry(p) ==
    /\ pc[p] = "loading" /\ ~crashed
    /\ LET r == LoaderResult(arg[p].f, arg[p].k)
       IN items' = [items EXCEPT ![item[p]] =
                       [value |-> r.value, err |-> r.err, done |-> r.err = NoErr,
                        locked |-> FALSE]]
    /\ Return(p, items')
    /\ UNCHANGED <<innerMap, entries, arg, rd, todo, results, ncalls, crashed, cellinfo>>
    /\ UNCHANGED <<gm, libVars>>
    /\ Observe

\* The loader returns: item.value, item.err = loadFunc(k); the deferred
\* store of done and the deferred Unlock; GetOrLoad returns the cell's pair.
LoaderReturn(p) ==
    /\ pc[p] = "loading" /\ ~crashed
    /\ arg[p].f \in Loaders
    /\ LET r == LoaderResult(arg[p].f, arg[p].k)
       IN items' = [items EXCEPT ![item[p]] =
                       [value |-> r.value, err |-> r.err, done |-> TRUE, locked |-> FALSE]]
    /\ Return(p, items')
    /\ UNCHANGED <<innerMap, entries, arg, rd, todo, results, ncalls, crashed, cellinfo>>
    /\ UNCHANGED <<gm, libVars>>
    /\ Observe

\* A once whose done is stored only when f returns.
LoaderPanicUnfired(p) ==
    /\ pc[p] = "loading" /\ ~crashed
    /\ arg[p].f = Panicker
    /\ items' = [items EXCEPT ![item[p]].locked = FALSE]
    /\ pc' = [pc EXCEPT ![p] = "idle"]
    /\ ret' = [ret EXCEPT ![p] = <<"panic">>]
    /\ item' = [item EXCEPT ![p] = 0]
    /\ hist' = HGetReturn(hist, p, arg[p].k, Pair(items', item[p]))
    /\ UNCHANGED <<innerMap, entries, arg, rd, todo, results, ncalls, crashed, cellinfo>>
    /\ UNCHANGED <<gm, libVars>>
    /\ Observe

\* The loader panics: item.value and item.err are not assigned; doSlow's
\* deferred store of done and deferred Unlock run, and the panic leaves
\* once.Do and GetOrLoad.  The history takes the pair the cell is left with
\* for the pair of the call.
LoaderPanic(p) ==
    /\ pc[p] = "loading" /\ ~crashed
    /\ arg[p].f = Panicker
    /\ items' = [items EXCEPT ![item[p]].done = TRUE, ![item[p]].locked = FALSE]
    /\ pc' = [pc EXCEPT ![p] = "idle"]
    /\ ret' = [ret EXCEPT ![p] = <<"panic">>]
    /\ item' = [item EXCEPT ![p] = 0]
    /\ hist' = HGetReturn(hist, p, arg[p].k, Pair(items', item[p]))
    /\ UNCHANGED <<innerMap, entries, arg, rd, todo, results, ncalls, crashed, cellinfo>>
    /\ UNCHANGED <<gm, libVars>>
    /\ Observe

\* An Evict that calls Load where it should call LoadAndDelete.
EvictLoads(p, k) ==
    /\ CanStart(p)
    /\ ncalls' = ncalls + 1
    /\ arg' = [arg EXCEPT ![p] = [op |-> "Evict", k |-> k, f |-> None, v |-> 0]]
    /\ LET ok == MapLoad(innerMap, entries, k) # NilAny
       IN /\ ret' = [ret EXCEPT ![p] = <<"bool", ok>>]
          /\ hist' = HTick(HEvictReturn(HEvictStart(hist, p, k), p, k, ok), p)
    /\ UNCHANGED <<innerMap, entries, pc, items, item, rd, todo, results, crashed, cellinfo>>
    /\ UNCHANGED <<gm, libVars>>
    /\ Observe

\* What the call returns of the (value, loaded) of sync.Map.LoadAndDelete:
\* Map.LoadAndDelete (item.(V), true) or (zero, false), Evict the bool.
LoadAndDeleteResult(op, value, loaded) ==
    IF op = "Evict" THEN <<"bool", loaded>> ELSE <<"lad", value, loaded>>

\* Map.LoadAndDelete: the lock-free path of sync.Map.LoadAndDelete.
LoadAndDeleteCall(p, k, op) ==
    /\ CanStart(p)
    /\ ncalls' = ncalls + 1
    /\ arg' = [arg EXCEPT ![p] = [op |-> op, k |-> k, f |-> None, v |-> 0]]
    /\ LET r == innerMap.read
           e == r.m[k]
       IN IF e = NoEntry /\ r.amended
          THEN /\ pc' = [pc EXCEPT ![p] = "lad_lock"]
               /\ ret' = [ret EXCEPT ![p] = <<None>>]
               /\ entries' = entries
               /\ hist' = HEvictStart(hist, p, k)
          ELSE LET d == IF e = NoEntry THEN [es |-> entries, value |-> NilAny, ok |-> FALSE]
                        ELSE entryDelete(entries, e)
               IN /\ entries' = d.es
                  /\ ret' = [ret EXCEPT ![p] = LoadAndDeleteResult(op, d.value, d.ok)]
                  /\ pc' = pc
                  /\ hist' = HTick(HEvictReturn(HEvictStart(hist, p, k), p, k, d.ok), p)
    /\ UNCHANGED <<innerMap, items, item, rd, todo, results, crashed, cellinfo>>
    /\ UNCHANGED <<gm, libVars>>
    /\ Observe

\* Evict: _, ok := c.innerMap.LoadAndDelete(k); return ok
Evict(p, k) == LoadAndDeleteCall(p, k, "Evict")

LadLock(p) ==
    /\ pc[p] = "lad_lock" /\ ~crashed
    /\ ~innerMap.mu
    /\ innerMap' = [innerMap EXCEPT !.mu = TRUE]
    /\ rd' = [rd EXCEPT ![p] = innerMap.read]
    /\ pc' = [pc EXCEPT ![p] = "lad_apply"]
    /\ hist' = HDisturb(hist, {arg[p].k})
    /\ UNCHANGED <<entries, items, arg, item, todo, results, ret, ncalls, crashed, cellinfo>>
    /\ UNCHANGED <<gm, libVars>>
    /\ Observe

LadApply(p) ==
    /\ pc[p] = "lad_apply" /\ ~crashed
    /\ LET o == LoadAndDeleteLocked(innerMap, entries, rd[p], arg[p].k)
       IN /\ rd' = [rd EXCEPT ![p] = ZeroReadOnly]
          /\ IF ~o.sm.mu
             THEN /\ innerMap' = o.sm
                  /\ crashed' = TRUE
                  /\ hist' = HDisturb(hist, {arg[p].k})
                  /\ UNCHANGED <<entries, pc, ret>>
             ELSE /\ innerMap' = [o.sm EXCEPT !.mu = FALSE]
                  /\ entries' = o.es
                  /\ crashed' = crashed
                  /\ pc' = [pc EXCEPT ![p] = "idle"]
                  /\ ret' = [ret EXCEPT ![p] = LoadAndDeleteResult(arg[p].op, o.value, o.loaded)]
                  /\ hist' = HEvictReturn(hist, p, arg[p].k, o.loaded)
    /\ UNCHANGED <<items, arg, item, todo, results, ncalls, cellinfo>>
    /\ UNCHANGED <<gm, libVars>>
    /\ Observe

\* A Clear with a value receiver: it resets a copy of the cache.
ClearWriteCopy(p, fs) ==
    /\ ~crashed
    /\ fs = MapFields
    /\ CanStart(p)
    /\ ncalls' = ncalls + 1
    /\ arg' = [arg EXCEPT ![p] = [op |-> "Clear", k |-> None, f |-> None, v |-> Len(items)]]
    /\ ret' = [ret EXCEPT ![p] = <<"cleared">>]
    /\ hist' = HTick(HClearReturn(HClearStart(hist, p), p, Len(items)), p)
    /\ UNCHANGED <<innerMap, entries, items, pc, item, rd, todo, results, crashed, cellinfo>>
    /\ UNCHANGED <<gm, libVars>>
    /\ Observe

\* Clear: c.innerMap = Map{}, a plain store of the struct's words: one step
\* writes the fields fs.  arg.v keeps the number of cells there were when
\* the call began.
ClearWrite(p, fs) ==
    /\ ~crashed
    /\ fs # {}
    /\ \/ /\ CanStart(p)
          /\ fs \subseteq MapFields
          /\ ncalls' = ncalls + 1
          /\ arg' = [arg EXCEPT ![p] = [op |-> "Clear", k |-> None, f |-> None,
                                        v |-> Len(items)]]
       \/ /\ pc[p] = "clearing"
          /\ fs \subseteq todo[p]
          /\ UNCHANGED <<ncalls, arg>>
    /\ innerMap' = [fld \in MapFields |-> IF fld \in fs THEN ZeroMap[fld] ELSE innerMap[fld]]
    /\ LET left == (IF pc[p] = "clearing" THEN todo[p] ELSE MapFields) \ fs
           h == IF pc[p] = "clearing" THEN hist ELSE HClearStart(hist, p)
       IN /\ todo' = [todo EXCEPT ![p] = left]
          /\ pc' = [pc EXCEPT ![p] = IF left = {} THEN "idle" ELSE "clearing"]
          /\ ret' = [ret EXCEPT ![p] = IF left = {} THEN <<"cleared">> ELSE <<None>>]
          /\ hist' = IF left # {} THEN HDisturb(h, KeySet)
                     ELSE IF pc[p] = "clearing" THEN HClearReturn(h, p, arg'[p].v)
                     ELSE HTick(HClearReturn(h, p, arg'[p].v), p)
    /\ UNCHANGED <<entries, items, item, rd, results, crashed, cellinfo>>
    /\ UNCHANGED <<gm, libVars>>
    /\ Observe

Clear(p) == \E fs \in SUBSET MapFields : ClearWrite(p, fs)

\* What the visitor keeps of a pair it is passed: Keys appends the key
\* (cache.go:47), the visitor of a Map.Range is taken to keep the pair and
\* to return true, Size counts the pair (map.go:136).
Visit(op, res, k, v) == IF op = "Range" THEN Append(res, <<k, v>>) ELSE Append(res, k)
RangeResult(op, res) ==
    IF op = "Keys" THEN <<"keys", res>>
    ELSE IF op = "Size" THEN <<"size", Len(res)>>
    ELSE <<"range", res>>

\* Map.Range, called by op: the lock-free start of sync.Map.Range.
RangeCall(p, op) ==
    /\ CanStart(p)
    /\ ncalls' = ncalls + 1
    /\ arg' = [arg EXCEPT ![p] = [op |-> op, k |-> None, f |-> None, v |-> 0]]
    /\ ret' = [ret EXCEPT ![p] = <<None>>]
    /\ hist' = HKeysStart(hist, p)
    /\ IF innerMap.read.amended
       THEN /\ pc' = [pc EXCEPT ![p] = "rng_lock"]
            /\ todo' = todo
       ELSE /\ pc' = [pc EXCEPT ![p] = "rng_iter"]
            /\ todo' = [todo EXCEPT ![p] = RangePairs(innerMap.read.m)]
    /\ UNCHANGED <<innerMap, entries, items, item, rd, results, crashed, cellinfo>>
    /\ UNCHANGED <<gm, libVars>>
    /\ Observe

\* Keys: c.innerMap.Range with the visitor that appends the key.
Keys(p) == RangeCall(p, "Keys")

RngLock(p) ==
    /\ pc[p] = "rng_lock" /\ ~crashed
    /\ ~innerMap.mu
    /\ innerMap' = [innerMap EXCEPT !.mu = TRUE]
    /\ rd' = [rd EXCEPT ![p] = innerMap.read]
    /\ pc' = [pc EXCEPT ![p] = "rng_apply"]
    /\ UNCHANGED <<entries, items, arg, item, todo, results, ret, ncalls, crashed,
                   cellinfo, hist>>
    /\ UNCHANGED <<gm, libVars>>
    /\ Observe

\* Range's locked body: an amended read is replaced by the dirty map.
RngApply(p) ==
    /\ pc[p] = "rng_apply" /\ ~crashed
    /\ LET promoted == [m |-> MapOrEmpty(innerMap.dirty), amended |-> FALSE]
           r == IF rd[p].amended THEN promoted ELSE rd[p]
           sm == IF rd[p].amended
                 THEN [innerMap EXCEPT !.read = promoted, !.dirty = NilMap, !.misses = 0]
                 ELSE innerMap
       IN /\ rd' = [rd EXCEPT ![p] = ZeroReadOnly]
          /\ IF ~sm.mu
             THEN /\ innerMap' = sm
                  /\ crashed' = TRUE
                  /\ UNCHANGED <<pc, todo>>
             ELSE /\ innerMap' = [sm EXCEPT !.mu = FALSE]
                  /\ crashed' = crashed
                  /\ pc' = [pc EXCEPT ![p] = "rng_iter"]
                  /\ todo' = [todo EXCEPT ![p] = RangePairs(r.m)]
    /\ UNCHANGED <<entries, items, arg, item, results, ret, ncalls, cellinfo, hist>>
    /\ UNCHANGED <<gm, libVars>>
    /\ Observe

\* One iteration of Range's loop (e.load() and the visitor), or, with
\* nothing left, the return of the call.
RngIter(p) ==
    /\ pc[p] = "rng_iter" /\ ~crashed
    /\ IF todo[p] = {}
       THEN /\ pc' = [pc EXCEPT ![p] = "idle"]
            /\ ret' = [ret EXCEPT ![p] = RangeResult(arg[p].op, results[p])]
            /\ results' = [results EXCEPT ![p] = <<>>]
            /\ todo' = todo
            /\ hist' = HEnd(hist, p)
       ELSE \E ke \in todo[p] :
            /\ todo' = [todo EXCEPT ![p] = @ \ {ke}]
            /\ results' = [results EXCEPT ![p] =
                             IF entryLoad(entries, ke[2]).ok
                             THEN Visit(arg[p].op, @, ke[1], entries[ke[2]]) ELSE @]
            /\ UNCHANGED <<pc, ret, hist>>
    /\ UNCHANGED <<innerMap, entries, items, arg, item, rd, ncalls, crashed, cellinfo>>
    /\ UNCHANGED <<gm, libVars>>
    /\ Observe

Next ==
    \/ \E p \in Procs, k \in KeySet, f \in Loaders \cup {NilFunc} : GetOrLoad(p, k, f)
    \/ \E p \in Procs : LosLock(p)
    \/ \E p \in Procs : LosApply(p)
    \/ \E p \in Procs : OnceDo(p)
    \/ \E p \in Procs : DoSlow(p)
    \/ \E p \in Procs : LoaderReturn(p)
    \/ \E p \in Procs, k \in KeySet : Evict(p, k)
    \/ \E p \in Procs : LadLock(p)
    \/ \E p \in Procs : LadApply(p)
    \/ \E p \in Procs : Clear(p)
    \/ \E p \in Procs : Keys(p)
    \/ \E p \in Procs : RngLock(p)
    \/ \E p \in Procs : RngApply(p)
    \/ \E p \in Procs : RngIter(p)

Spec == Init /\ [][Next]_vars

\* The Cache with a loader that panics.
NextPanic ==
    \/ \E p \in Procs, k \in KeySet, f \in {"fA", Panicker} : GetOrLoad(p, k, f)
    \/ \E p \in Procs : LosLock(p)
    \/ \E p \in Procs : LosApply(p)
    \/ \E p \in Procs : OnceDo(p)
    \/ \E p \in Procs : DoSlow(p)
    \/ \E p \in Procs : LoaderReturn(p)
    \/ \E p \in Procs : LoaderPanic(p)
    \/ \E p \in Procs, k \in KeySet : Evict(p, k)
    \/ \E p \in Procs : LadLock(p)
    \/ \E p \in Procs : LadApply(p)
    \/ \E p \in Procs : Clear(p)
    \/ \E p \in Procs : Keys(p)
    \/ \E p \in Procs : RngLock(p)
    \/ \E p \in Procs : RngApply(p)
    \/ \E p \in Procs : RngIter(p)

SpecPanic == Init /\ [][NextPanic]_vars

\* The frame of the call of GetOrLoad that the loader run by goroutine p
\* makes: the call runs in p, and p's own call waits for it to return.
Inner(p) == p + Cardinality(Procs)

\* The goroutines and the one frame more that SpecNested begins with.
NestedFrames == 1..(Cardinality(Procs) + 1)

\* The key that a re-entrant loader passes to GetOrLoad.
InnerKey(a) == IF a.f = "fS" THEN a.k ELSE CHOOSE k \in KeySet : k # a.k

\* GetOrLoad(k, f) with a re-entrant loader, by a goroutine that has a
\* frame for the call of its loader.
GetOrLoadReentrant(p, k, f) == Inner(p) \in Frames /\ GetOrLoad(p, k, f)

\* The loader run by p calls c.GetOrLoad(InnerKey, fA): lines 18-23 of that
\* call.  It is not counted in ncalls.
LoaderCall(p) ==
    LET q == Inner(p)
        k == InnerKey(arg[p])
    IN /\ pc[p] = "loading" /\ ~crashed
       /\ arg[p].f \in Reentrant
       /\ pc[q] = "idle" /\ arg[q] = NoArg
       /\ arg' = [arg EXCEPT ![q] = [op |-> "GetOrLoad", k |-> k, f |-> "fA",
                                     v |-> hist.cutoff]]
       /\ GetItem(q, k)
       /\ ncalls' = ncalls
       /\ UNCHANGED <<gm, libVars>>
       /\ Observe

\* The call that p's loader made has returned, or has panicked: the loader
\* returns what it returned, or the panic leaves the loader as in LoaderPanic.
LoaderCallReturn(p) ==
    LET q == Inner(p)
    IN /\ pc[p] = "loading" /\ ~crashed
       /\ arg[p].f \in Reentrant
       /\ pc[q] = "idle" /\ arg[q] # NoArg
       /\ arg' = [arg EXCEPT ![q] = NoArg]
       /\ IF ret[q] = <<"panic">>
          THEN /\ items' = [items EXCEPT ![item[p]].done = TRUE, ![item[p]].locked = FALSE]
               /\ pc' = [pc EXCEPT ![p] = "idle"]
               /\ ret' = [ret EXCEPT ![p] = <<"panic">>]
               /\ item' = [item EXCEPT ![p] = 0]
               /\ hist' = HGetReturn(hist, p, arg[p].k, Pair(items', item[p]))
          ELSE /\ items' = [items EXCEPT ![item[p]] =
                               [value |-> ret[q][2].value, err |-> ret[q][2].err,
                                done |-> TRUE, locked |-> FALSE]]
               /\ Return(p, items')
       /\ UNCHANGED <<innerMap, entries, rd, todo, results, ncalls, crashed, cellinfo>>
       /\ UNCHANGED <<gm, libVars>>
       /\ Observe

\* The Cache with loaders that call GetOrLoad on the Cache that runs them.
NextNested ==
    \/ \E p \in Procs, k \in KeySet : GetOrLoad(p, k, "fA")
    \/ \E p \in Procs, k \in KeySet, f \in Reentrant : GetOrLoadReentrant(p, k, f)
    \/ \E p \in NestedFrames : LosLock(p)
    \/ \E p \in NestedFrames : LosApply(p)
    \/ \E p \in NestedFrames : OnceDo(p)
    \/ \E p \in NestedFrames : DoSlow(p)
    \/ \E p \in NestedFrames : LoaderReturn(p)
    \/ \E p \in Procs : LoaderCall(p)
    \/ \E p \in Procs : LoaderCallReturn(p)
    \/ \E p \in Procs, k \in KeySet : Evict(p, k)
    \/ \E p \in Procs : LadLock(p)
    \/ \E p \in Procs : LadApply(p)
    \/ \E p \in Procs : Clear(p)

\* A fair scheduler, and loaders that go on: a goroutine that can take a
\* step of its call, or of the call its loader makes, takes it in the end.
NestedFairness ==
    /\ \A p \in NestedFrames :
           /\ WF_vars(LosLock(p)) /\ WF_vars(LosApply(p))
           /\ WF_vars(OnceDo(p)) /\ WF_vars(DoSlow(p))
           /\ WF_vars(LoaderReturn(p))
    /\ \A p \in Procs :
           /\ WF_vars(LoaderCall(p)) /\ WF_vars(LoaderCallReturn(p))
           /\ WF_vars(LadLock(p)) /\ WF_vars(LadApply(p))
           /\ WF_vars(pc[p] = "clearing" /\ Clear(p))

\* A new Cache, two goroutines, and a frame for the call that a loader run
\* by goroutine 1 makes.
InitNested ==
    /\ innerMap = ZeroMap
    /\ entries = <<>>
    /\ items = <<>>
    /\ pc = [p \in NestedFrames |-> "idle"]
    /\ arg = [p \in NestedFrames |-> NoArg]
    /\ item = [p \in NestedFrames |-> 0]
    /\ rd = [p \in NestedFrames |-> ZeroReadOnly]
    /\ todo = [p \in NestedFrames |-> {}]
    /\ results = [p \in NestedFrames |-> <<>>]
    /\ ret = [p \in NestedFrames |-> <<None>>]
    /\ ncalls = 0
    /\ crashed = FALSE
    /\ gm = [items |-> [k \in KeySet |-> NilAny], w |-> FALSE, r |-> 0]
    /\ cellinfo = <<>>
    /\ hist = HInitOn(NestedFrames)
    /\ obs = [p \in NestedFrames |-> NoObs]
    /\ set = ZeroSet
    /\ strm = ZeroStream

SpecNested == InitNested /\ [][NextNested]_vars /\ NestedFairness

\* The Cache under a scheduler that is fair to the goroutines in once.Do: a
\* goroutine that can take its step there (the fast check of done, the
\* locking of the once's mutex) takes it in the end.  Whether a loader
\* returns is left open.
Fairness ==
    \A p \in Procs :
        /\ WF_vars(OnceDo(p))
        /\ WF_vars(DoSlow(p))

\* The Cache at its start is either new, or is one on which goroutine 2 has
\* run Clear() while goroutine 1, in GetOrLoad("k2", fA), was inside
\* sync.Map.LoadOrStore holding mu: the new map's mutex is free, goroutine 1
\* is still before its store and its m.mu.Unlock().  The calls that led to
\* the second state are not counted in ncalls.
InitFair ==
    /\ innerMap = ZeroMap
    /\ entries = <<>>
    /\ items = <<>>
    /\ item = [p \in Procs |-> 0]
    /\ rd = [p \in Procs |-> ZeroReadOnly]
    /\ todo = [p \in Procs |-> {}]
    /\ results = [p \in Procs |-> <<>>]
    /\ ncalls = 0
    /\ crashed = FALSE
    /\ gm = [items |-> [k \in KeySet |-> NilAny], w |-> FALSE, r |-> 0]
    /\ cellinfo = <<>>
    /\ obs = [p \in Procs |-> NoObs]
    /\ set = ZeroSet
    /\ strm = ZeroStream
    /\ \/ /\ pc = [p \in Procs |-> "idle"]
          /\ arg = [p \in Procs |-> NoArg]
          /\ ret = [p \in Procs |-> <<None>>]
          /\ hist = HInit
       \/ /\ pc = [p \in Procs |-> IF p = 1 THEN "los_apply" ELSE "idle"]
          /\ arg = [p \in Procs |->
                       IF p = 1 THEN [op |-> "GetOrLoad", k |-> "k2", f |-> "fA", v |-> 0]
                       ELSE [op |-> "Clear", k |-> None, f |-> None, v |-> 0]]
          /\ ret = [p \in Procs |-> IF p = 1 THEN <<None>> ELSE <<"cleared">>]
          /\ hist = [HInit EXCEPT !.clears = TRUE, !.nclear = 1, !.tick[2] = 1]

SpecFair == InitFair /\ [][Next]_vars /\ Fairness

\* The Cache under a scheduler that is fair to every goroutine in a call,
\* with loaders that return for every key but SlowKey: a goroutine that can
\* take a step of its call takes it in the end, and a loader run for
\* another key than SlowKey returns.  A loader run for SlowKey may run for
\* ever.
SlowKey == "k1"
Progress ==
    \A p \in Procs :
        /\ WF_vars(LosLock(p)) /\ WF_vars(LosApply(p))
        /\ WF_vars(OnceDo(p)) /\ WF_vars(DoSlow(p))
        /\ WF_vars(arg[p].k # SlowKey /\ LoaderReturn(p))
        /\ WF_vars(LadLock(p)) /\ WF_vars(LadApply(p))
        /\ WF_vars(pc[p] = "clearing" /\ Clear(p))
        /\ WF_vars(RngLock(p)) /\ WF_vars(RngApply(p)) /\ WF_vars(RngIter(p))

SpecProgress == InitFair /\ [][Next]_vars /\ Progress

\* The Cache once goroutine 1 has called, alone, GetOrLoad("k1", fA) and
\* then Keys(): the key is cached and Range has promoted the dirty map to
\* read.  The calls that led here are not counted in ncalls.
InitWarm ==
    /\ innerMap = [mu |-> FALSE,
                   read |-> [m |-> [k \in KeySet |-> IF k = "k1" THEN 1 ELSE NoEntry],
                             amended |-> FALSE],
                   dirty |-> NilMap, misses |-> 0]
    /\ entries = <<1>>
    /\ items = <<[value |-> <<"A", "k1">>, err |-> NoErr, done |-> TRUE, locked |-> FALSE]>>
    /\ pc = [p \in Procs |-> "idle"]
    /\ arg = [p \in Procs |-> IF p = 1 THEN [op |-> "Keys", k |-> None, f |-> None, v |-> 0]
                               ELSE NoArg]
    /\ item = [p \in Procs |-> 0]
    /\ rd = [p \in Procs |-> ZeroReadOnly]
    /\ todo = [p \in Procs |-> {}]
    /\ results = [p \in Procs |-> <<>>]
    /\ ret = [p \in Procs |-> IF p = 1 THEN <<"keys", <<"k1">> >> ELSE <<None>>]
    /\ ncalls = 0
    /\ crashed = FALSE
    /\ gm = [items |-> [k \in KeySet |-> NilAny], w |-> FALSE, r |-> 0]
    /\ cellinfo = <<[k |-> "k1", invoked |-> <<"fA">>]>>
    /\ hist = [HInit EXCEPT !.settled["k1"] = LoaderResult("fA", "k1"),
                            !.firm["k1"] = LoaderResult("fA", "k1")]
    /\ obs = [p \in Procs |-> NoObs]
    /\ set = ZeroSet
    /\ strm = ZeroStream

SpecWarm == InitWarm /\ [][Next]_vars

\* The Cache of SpecWarm once goroutine 1 has called Clear() and goroutine 2,
\* while that Clear was writing, GetOrLoad("k1", fA): Clear had written the
\* read word when the GetOrLoad stored its cell, the second of k1, in a new
\* dirty map and set read.amended, and wrote the other words afterwards.
\* Both calls have returned.  The calls that led here are not counted in
\* ncalls.
InitTorn ==
    /\ innerMap = [mu |-> FALSE, read |-> [m |-> EmptyM, amended |-> TRUE],
                   dirty |-> NilMap, misses |-> 0]
    /\ entries = <<1, 2>>
    /\ items = <<[value |-> <<"A", "k1">>, err |-> NoErr, done |-> TRUE, locked |-> FALSE],
                 [value |-> <<"A", "k1">>, err |-> NoErr, done |-> TRUE, locked |-> FALSE]>>
    /\ pc = [p \in Procs |-> "idle"]
    /\ arg = [p \in Procs |-> IF p = 1 THEN [op |-> "Clear", k |-> None, f |-> None, v |-> 1]
                               ELSE [op |-> "GetOrLoad", k |-> "k1", f |-> "fA", v |-> 0]]
    /\ item = [p \in Procs |-> 0]
    /\ rd = [p \in Procs |-> ZeroReadOnly]
    /\ todo = [p \in Procs |-> {}]
    /\ results = [p \in Procs |-> <<>>]
    /\ ret = [p \in Procs |-> IF p = 1 THEN <<"cleared">>
                               ELSE <<"pair", LoaderResult("fA", "k1")>>]
    /\ ncalls = 0
    /\ crashed = FALSE
    /\ gm = [items |-> [k \in KeySet |-> NilAny], w |-> FALSE, r |-> 0]
    /\ cellinfo = <<[k |-> "k1", invoked |-> <<"fA">>], [k |-> "k1", invoked |-> <<"fA">>]>>
    /\ hist = [HInit EXCEPT !.clears = TRUE, !.nclear = 1, !.cutoff = 1,
                            !.settled["k1"] = LoaderResult("fA", "k1")]
    /\ obs = [p \in Procs |-> NoObs]
    /\ set = ZeroSet
    /\ strm = ZeroStream

SpecTorn == InitTorn /\ [][Next]_vars

\* The Cache once goroutine 1 has called, alone, GetOrLoad("k1", fA),
\* GetOrLoad("k2", fA), Keys() and Evict("k2"): both keys have their entry
\* in read, the entry of k2 is nil.  The calls that led here are not counted
\* in ncalls.
InitKeys ==
    /\ innerMap = [mu |-> FALSE,
                   read |-> [m |-> [k \in KeySet |-> IF k = "k1" THEN 1 ELSE 2],
                             amended |-> FALSE],
                   dirty |-> NilMap, misses |-> 0]
    /\ entries = <<1, NilP>>
    /\ items = <<[value |-> <<"A", "k1">>, err |-> NoErr, done |-> TRUE, locked |-> FALSE],
                 [value |-> <<"A", "k2">>, err |-> NoErr, done |-> TRUE, locked |-> FALSE]>>
    /\ pc = [p \in Procs |-> "idle"]
    /\ arg = [p \in Procs |-> IF p = 1 THEN [op |-> "Evict", k |-> "k2", f |-> None, v |-> 0]
                               ELSE NoArg]
    /\ item = [p \in Procs |-> 0]
    /\ rd = [p \in Procs |-> ZeroReadOnly]
    /\ todo = [p \in Procs |-> {}]
    /\ results = [p \in Procs |-> <<>>]
    /\ ret = [p \in Procs |-> IF p = 1 THEN <<"bool", TRUE>> ELSE <<None>>]
    /\ ncalls = 0
    /\ crashed = FALSE
    /\ gm = [items |-> [k \in KeySet |-> NilAny], w |-> FALSE, r |-> 0]
    /\ cellinfo = <<[k |-> "k1", invoked |-> <<"fA">>], [k |-> "k2", invoked |-> <<"fA">>]>>
    /\ hist = [HInit EXCEPT !.evicts = {"k2"}, !.nevict["k2"] = 1,
                            !.settled["k1"] = LoaderResult("fA", "k1"),
                            !.firm["k1"] = LoaderResult("fA", "k1"),
                            !.gone["k2"] = "evict",
                            !.tick[1] = 1]
    /\ obs = [p \in Procs |-> NoObs]
    /\ set = ZeroSet
    /\ strm = ZeroStream

SpecKeys == InitKeys /\ [][Next]_vars

\* ---------------------------------------------------------- generic.Map
\* Map.LoadOrStore(k, v): the lock-free path of sync.Map.LoadOrStore.  Each
\* call passes a value of its own, the number of the call.
LoadOrStore(p, k) ==
    /\ CanStart(p)
    /\ ncalls' = ncalls + 1
    /\ arg' = [arg EXCEPT ![p] = [op |-> "LoadOrStore", k |-> k, f |-> None,
                                  v |-> ncalls + 1]]
    /\ LET e == innerMap.read.m[k]
           t == tryLoadOrStore(entries, e, ncalls + 1)
       IN IF e # NoEntry /\ t.ok
          THEN /\ entries' = t.es
               /\ AfterLoadOrStore(p, arg'[p], t.actual, t.loaded, FALSE, HTick(hist, p))
          ELSE /\ pc' = [pc EXCEPT ![p] = "los_lock"]
               /\ ret' = [ret EXCEPT ![p] = <<None>>]
               /\ UNCHANGED <<entries, item, hist>>
    /\ UNCHANGED <<innerMap, items, rd, todo, results, crashed, gm, cellinfo, libVars>>
    /\ Observe

\* Map.LoadAndDelete(k)
LoadAndDelete(p, k) == LoadAndDeleteCall(p, k, "LoadAndDelete")

\* The values CompareAndSwap is passed as old.
Vals == 1..MaxCalls

\* Map.CompareAndSwap(k, old, new): the lock-free path of
\* sync.Map.CompareAndSwap.
CompareAndSwap(p, k, old, new) ==
    /\ CanStart(p)
    /\ ncalls' = ncalls + 1
    /\ arg' = [arg EXCEPT ![p] = [op |-> "CompareAndSwap", k |-> k, f |-> None,
                                  v |-> new, old |-> old]]
    /\ LET r == innerMap.read
           e == r.m[k]
       IN IF e = NoEntry /\ r.amended
          THEN /\ pc' = [pc EXCEPT ![p] = "cas_lock"]
               /\ ret' = [ret EXCEPT ![p] = <<None>>]
               /\ UNCHANGED <<entries, hist>>
          ELSE LET t == IF e = NoEntry THEN [es |-> entries, ok |-> FALSE]
                        ELSE tryCompareAndSwap(entries, e, old, new)
               IN /\ entries' = t.es
                  /\ ret' = [ret EXCEPT ![p] = <<"bool", t.ok>>]
                  /\ pc' = pc
                  /\ hist' = HTick(HCompareAndSwap(hist, p, k, old, new, t.ok), p)
    /\ UNCHANGED <<innerMap, items, item, rd, todo, results, crashed, cellinfo>>
    /\ UNCHANGED <<gm, libVars>>
    /\ Observe

\* sync.Map.CompareAndSwap: m.mu.Lock(); read = m.loadReadOnly()
CasLock(p) ==
    /\ pc[p] = "cas_lock" /\ ~crashed
    /\ ~innerMap.mu
    /\ innerMap' = [innerMap EXCEPT !.mu = TRUE]
    /\ rd' = [rd EXCEPT ![p] = innerMap.read]
    /\ pc' = [pc EXCEPT ![p] = "cas_apply"]
    /\ UNCHANGED <<entries, items, arg, item, todo, results, ret, ncalls, crashed,
                   cellinfo, hist>>
    /\ UNCHANGED <<gm, libVars>>
    /\ Observe

\* sync.Map.CompareAndSwap: the locked body and the deferred Unlock.
CasApply(p) ==
    /\ pc[p] = "cas_apply" /\ ~crashed
    /\ LET o == CompareAndSwapLocked(innerMap, entries, rd[p], arg[p].k, arg[p].old, arg[p].v)
       IN /\ rd' = [rd EXCEPT ![p] = ZeroReadOnly]
          /\ entries' = o.es
          /\ IF ~o.sm.mu
             THEN /\ innerMap' = o.sm
                  /\ crashed' = TRUE
                  /\ UNCHANGED <<pc, ret, hist>>
             ELSE /\ innerMap' = [o.sm EXCEPT !.mu = FALSE]
                  /\ crashed' = crashed
                  /\ pc' = [pc EXCEPT ![p] = "idle"]
                  /\ ret' = [ret EXCEPT ![p] = <<"bool", o.swapped>>]
                  /\ hist' = HCompareAndSwap(hist, p, arg[p].k, arg[p].old, arg[p].v, o.swapped)
    /\ UNCHANGED <<items, arg, item, todo, results, ncalls, cellinfo>>
    /\ UNCHANGED <<gm, libVars>>
    /\ Observe

NextMap ==
    \/ \E p \in Procs, k \in KeySet : LoadOrStore(p, k)
    \/ \E p \in Procs : LosLock(p)
    \/ \E p \in Procs : LosApply(p)
    \/ \E p \in Procs, k \in KeySet : LoadAndDelete(p, k)
    \/ \E p \in Procs : LadLock(p)
    \/ \E p \in Procs : LadApply(p)

SpecMap == Init /\ [][NextMap]_vars

\* generic.Map under LoadOrStore, LoadAndDelete and CompareAndSwap; a
\* CompareAndSwap passes as new either old again or the number of the call.
NextCas ==
    \/ \E p \in Procs, k \in KeySet : LoadOrStore(p, k)
    \/ \E p \in Procs : LosLock(p)
    \/ \E p \in Procs : LosApply(p)
    \/ \E p \in Procs, k \in KeySet : LoadAndDelete(p, k)
    \/ \E p \in Procs : LadLock(p)
    \/ \E p \in Procs : LadApply(p)
    \/ \E p \in Procs, k \in KeySet, old \in Vals :
          \E new \in {old, ncalls + 1} : CompareAndSwap(p, k, old, new)
    \/ \E p \in Procs : CasLock(p)
    \/ \E p \in Procs : CasApply(p)

SpecCas == Init /\ [][NextCas]_vars

\* Map.Range(rangeFunc) and Map.Size(): both are a sync.Map.Range.
Range(p) == RangeCall(p, "Range")
Size(p) == RangeCall(p, "Size")

\* A generic.Map that is either new or has been through
\* LoadOrStore("k1", v), LoadOrStore("k2", w), a Range (which promoted the
\* dirty map to read) and LoadAndDelete("k2"): both keys have their entry in
\* read, the entry of k2 is nil.  v is a value that no later call passes.
InitRange ==
    /\ \/ /\ innerMap = ZeroMap
          /\ entries = <<>>
          /\ hist = HInit
       \/ /\ innerMap = [mu |-> FALSE,
                         read |-> [m |-> [k \in KeySet |-> IF k = "k1" THEN 1 ELSE 2],
                                   amended |-> FALSE],
                         dirty |-> NilMap, misses |-> 0]
          /\ entries = <<MaxCalls + 1, NilP>>
          /\ hist = [HInit EXCEPT !.evicts = {"k2"}, !.nevict["k2"] = 1]
    /\ items = <<>>
    /\ pc = [p \in Procs |-> "idle"]
    /\ arg = [p \in Procs |-> NoArg]
    /\ item = [p \in Procs |-> 0]
    /\ rd = [p \in Procs |-> ZeroReadOnly]
    /\ todo = [p \in Procs |-> {}]
    /\ results = [p \in Procs |-> <<>>]
    /\ ret = [p \in Procs |-> <<None>>]
    /\ ncalls = 0
    /\ crashed = FALSE
    /\ gm = [items |-> [k \in KeySet |-> NilAny], w |-> FALSE, r |-> 0]
    /\ cellinfo = <<>>
    /\ obs = [p \in Procs |-> NoObs]
    /\ set = ZeroSet
    /\ strm = ZeroStream

NextRange ==
    \/ \E p \in Procs, k \in KeySet : LoadOrStore(p, k)
    \/ \E p \in Procs : LosLock(p)
    \/ \E p \in Procs : LosApply(p)
    \/ \E p \in Procs, k \in KeySet : LoadAndDelete(p, k)
    \/ \E p \in Procs : LadLock(p)
    \/ \E p \in Procs : LadApply(p)
    \/ \E p \in Procs : Range(p)
    \/ \E p \in Procs : Size(p)
    \/ \E p \in Procs : RngLock(p)
    \/ \E p \in Procs : RngApply(p)
    \/ \E p \in Procs : RngIter(p)

SpecRange == InitRange /\ [][NextRange]_vars

\* ------------------------------------------------------------- gmap.Map
\* gmap.LoadOrStore, m.lock.RLock(): a reader enters when no writer holds
\* the lock.
GmapLoadOrStore(p, k) ==
    /\ CanStart(p)
    /\ ~gm.w
    /\ ncalls' = ncalls + 1
    /\ arg' = [arg EXCEPT ![p] = [op |-> "GmapLoadOrStore", k |-> k, f |-> None,
                                  v |-> ncalls + 1]]
    /\ gm' = [gm EXCEPT !.r = gm.r + 1]
    /\ pc' = [pc EXCEPT ![p] = "g_read"]
    /\ ret' = [ret EXCEPT ![p] = <<None>>]
    /\ UNCHANGED <<hist, syncMapVars>>

\* actual, loaded = m.items[key]; m.lock.RUnlock(); a loaded call returns.
GmapRead(p) ==
    /\ pc[p] = "g_read"
    /\ gm' = [gm EXCEPT !.r = gm.r - 1]
    /\ IF gm.items[arg[p].k] # NilAny
       THEN /\ pc' = [pc EXCEPT ![p] = "idle"]
            /\ ret' = [ret EXCEPT ![p] = <<"los", gm.items[arg[p].k], TRUE>>]
            /\ hist' = HLoadOrStore(hist, arg[p].k, arg[p].v, gm.items[arg[p].k], TRUE)
       ELSE /\ pc' = [pc EXCEPT ![p] = "g_lock"]
            /\ UNCHANGED <<ret, hist>>
    /\ UNCHANGED <<arg, ncalls, syncMapVars>>

\* if !loaded { m.lock.Lock()
GmapLock(p) ==
    /\ pc[p] = "g_lock"
    /\ ~gm.w /\ gm.r = 0
    /\ gm' = [gm EXCEPT !.w = TRUE]
    /\ pc' = [pc EXCEPT ![p] = "g_store"]
    /\ UNCHANGED <<arg, ret, ncalls, hist, syncMapVars>>

\* m.items[key] = value; m.lock.Unlock(); actual = value }; return
GmapStore(p) ==
    /\ pc[p] = "g_store"
    /\ gm' = [gm EXCEPT !.items[arg[p].k] = arg[p].v, !.w = FALSE]
    /\ pc' = [pc EXCEPT ![p] = "idle"]
    /\ ret' = [ret EXCEPT ![p] = <<"los", arg[p].v, FALSE>>]
    /\ hist' = HLoadOrStore(hist, arg[p].k, arg[p].v, arg[p].v, FALSE)
    /\ UNCHANGED <<arg, ncalls, syncMapVars>>

\* gmap.LoadAndDelete, m.lock.Lock()
GmapLoadAndDelete(p, k) ==
    /\ CanStart(p)
    /\ ~gm.w /\ gm.r = 0
    /\ ncalls' = ncalls + 1
    /\ arg' = [arg EXCEPT ![p] = [op |-> "GmapLoadAndDelete", k |-> k, f |-> None, v |-> 0]]
    /\ gm' = [gm EXCEPT !.w = TRUE]
    /\ pc' = [pc EXCEPT ![p] = "g_delete"]
    /\ ret' = [ret EXCEPT ![p] = <<None>>]
    /\ hist' = [hist EXCEPT !.evicts = hist.evicts \cup {k}]
    /\ UNCHANGED syncMapVars

\* value, loaded = m.items[key]; delete(m.items, key); the deferred Unlock
\* (gmap.Delete: the same without the value and its return).
GmapDelete(p) ==
    /\ pc[p] = "g_delete"
    /\ gm' = [gm EXCEPT !.items[arg[p].k] = NilAny, !.w = FALSE]
    /\ pc' = [pc EXCEPT ![p] = "idle"]
    /\ ret' = [ret EXCEPT ![p] =
                 IF arg[p].op = "GmapDelete" THEN <<"deleted">>
                 ELSE <<"lad", gm.items[arg[p].k], gm.items[arg[p].k] # NilAny>>]
    /\ UNCHANGED <<arg, ncalls, hist, syncMapVars>>

NextGmap ==
    \/ \E p \in Procs, k \in KeySet : GmapLoadOrStore(p, k)
    \/ \E p \in Procs : GmapRead(p)
    \/ \E p \in Procs : GmapLock(p)
    \/ \E p \in Procs : GmapStore(p)
    \/ \E p \in Procs, k \in KeySet : GmapLoadAndDelete(p, k)
    \/ \E p \in Procs : GmapDelete(p)

SpecGmap == Init /\ [][NextGmap]_vars

\* gmap.Delete, m.lock.Lock()
GmapDeleteCall(p, k) ==
    /\ CanStart(p)
    /\ ~gm.w /\ gm.r = 0
    /\ ncalls' = ncalls + 1
    /\ arg' = [arg EXCEPT ![p] = [op |-> "GmapDelete", k |-> k, f |-> None, v |-> 0]]
    /\ gm' = [gm EXCEPT !.w = TRUE]
    /\ pc' = [pc EXCEPT ![p] = "g_delete"]
    /\ ret' = [ret EXCEPT ![p] = <<None>>]
    /\ UNCHANGED <<hist, syncMapVars>>

\* gmap.Store, m.lock.Lock(); the value is the number of the call.
GmapStoreCall(p, k) ==
    /\ CanStart(p)
    /\ ~gm.w /\ gm.r = 0
    /\ ncalls' = ncalls + 1
    /\ arg' = [arg EXCEPT ![p] = [op |-> "GmapStore", k |-> k, f |-> None, v |-> ncalls + 1]]
    /\ gm' = [gm EXCEPT !.w = TRUE]
    /\ pc' = [pc EXCEPT ![p] = "g_put"]
    /\ ret' = [ret EXCEPT ![p] = <<None>>]
    /\ UNCHANGED <<hist, syncMapVars>>

\* gmap.Store: m.items[key] = value; the deferred Unlock
GmapPut(p) ==
    /\ pc[p] = "g_put"
    /\ gm' = [gm EXCEPT !.items[arg[p].k] = arg[p].v, !.w = FALSE]
    /\ pc' = [pc EXCEPT ![p] = "idle"]
    /\ ret' = [ret EXCEPT ![p] = <<"stored">>]
    /\ UNCHANGED <<arg, ncalls, hist, syncMapVars>>

\* gmap.LoadAndDelete is called and waits for the lock.
GmapLadCall(p, k) ==
    /\ CanStart(p)
    /\ ncalls' = ncalls + 1
    /\ arg' = [arg EXCEPT ![p] = [op |-> "GmapLoadAndDelete", k |-> k, f |-> None, v |-> 0]]
    /\ pc' = [pc EXCEPT ![p] = "g_wait"]
    /\ ret' = [ret EXCEPT ![p] = <<None>>]
    /\ UNCHANGED <<gm, hist, syncMapVars>>

\* gmap.LoadAndDelete, m.lock.Lock()
GmapLadLock(p) ==
    /\ pc[p] = "g_wait"
    /\ ~gm.w /\ gm.r = 0
    /\ gm' = [gm EXCEPT !.w = TRUE]
    /\ pc' = [pc EXCEPT ![p] = "g_delete"]
    /\ UNCHANGED <<arg, ret, ncalls, hist, syncMapVars>>

\* A generic.Map (the innerMap of a Cache) and a gmap.Map that both hold
\* k1 and k2: the generic.Map after LoadOrStore("k1", v), a Range and
\* LoadOrStore("k2", w), so that k1 is in read and k2 only in dirty.
InitLad ==
    /\ innerMap = [mu |-> FALSE,
                   read |-> [m |-> [k \in KeySet |-> IF k = "k1" THEN 1 ELSE NoEntry],
                             amended |-> TRUE],
                   dirty |-> [k \in KeySet |-> IF k = "k1" THEN 1 ELSE 2],
                   misses |-> 0]
    /\ entries = <<MaxCalls + 1, MaxCalls + 2>>
    /\ items = <<>>
    /\ pc = [p \in Procs |-> "idle"]
    /\ arg = [p \in Procs |-> NoArg]
    /\ item = [p \in Procs |-> 0]
    /\ rd = [p \in Procs |-> ZeroReadOnly]
    /\ todo = [p \in Procs |-> {}]
    /\ results = [p \in Procs |-> <<>>]
    /\ ret = [p \in Procs |-> <<None>>]
    /\ ncalls = 0
    /\ crashed = FALSE
    /\ gm = [items |-> [k \in KeySet |-> IF k = "k1" THEN MaxCalls + 1 ELSE MaxCalls + 2],
             w |-> FALSE, r |-> 0]
    /\ cellinfo = <<>>
    /\ hist = HInit
    /\ obs = [p \in Procs |-> NoObs]
    /\ set = ZeroSet
    /\ strm = ZeroStream

\* The calls of LoadAndDelete, with no call that stores.
NextLad ==
    \/ \E p \in Procs, k \in KeySet : LoadAndDelete(p, k)
    \/ \E p \in Procs, k \in KeySet : Evict(p, k)
    \/ \E p \in Procs : LadLock(p)
    \/ \E p \in Procs : LadApply(p)
    \/ \E p \in Procs, k \in KeySet : GmapLadCall(p, k)
    \/ \E p \in Procs : GmapLadLock(p)
    \/ \E p \in Procs : GmapDelete(p)

SpecLad == InitLad /\ [][NextLad]_vars

\* What the operations of a gmap.Range leave alone.
gmapRangeVars == <<innerMap, entries, items, item, rd, crashed, cellinfo, libVars>>

\* gmap.Clone: the pairs of the copy.
Clone(originalMap) == {<<k, originalMap[k]>> : k \in KeysOf(originalMap)}

\* gmap.Range, m.lock.RLock()
GmapRange(p) ==
    /\ CanStart(p)
    /\ ~gm.w
    /\ ncalls' = ncalls + 1
    /\ arg' = [arg EXCEPT ![p] = [op |-> "GmapRange", k |-> None, f |-> None, v |-> 0]]
    /\ gm' = [gm EXCEPT !.r = gm.r + 1]
    /\ pc' = [pc EXCEPT ![p] = "g_clone"]
    /\ ret' = [ret EXCEPT ![p] = <<None>>]
    /\ UNCHANGED <<hist, syncMapVars>>

\* A Range that keeps the read lock while it runs the loop.
GmapCloneHolding(p) ==
    /\ pc[p] = "g_clone"
    /\ todo' = [todo EXCEPT ![p] = Clone(gm.items)]
    /\ UNCHANGED <<gm, libVars>>
    /\ pc' = [pc EXCEPT ![p] = "g_iter"]
    /\ obs' = [obs EXCEPT ![p] = [first |-> gm.items, seen |-> {}]]
    /\ UNCHANGED <<arg, results, ret, ncalls, hist, gmapRangeVars>>

\* mm := Clone(m.items); m.lock.RUnlock().  obs keeps what the map holds
\* at this instant.
GmapClone(p) ==
    /\ pc[p] = "g_clone"
    /\ todo' = [todo EXCEPT ![p] = Clone(gm.items)]
    /\ gm' = [gm EXCEPT !.r = gm.r - 1]
    /\ pc' = [pc EXCEPT ![p] = "g_iter"]
    /\ obs' = [obs EXCEPT ![p] = [first |-> gm.items, seen |-> {}]]
    /\ UNCHANGED <<arg, results, ret, ncalls, hist, gmapRangeVars>>

\* A loop that passes the visitor what the live map holds under the key.
GmapIterLive(p) ==
    /\ pc[p] = "g_iter"
    /\ IF todo[p] = {}
       THEN /\ pc' = [pc EXCEPT ![p] = "idle"]
            /\ ret' = [ret EXCEPT ![p] = <<"range", results[p]>>]
            /\ results' = [results EXCEPT ![p] = <<>>]
            /\ obs' = [obs EXCEPT ![p] = NoObs]
            /\ todo' = todo
       ELSE \E ke \in todo[p] :
            /\ todo' = [todo EXCEPT ![p] = @ \ {ke}]
            /\ results' = [results EXCEPT ![p] =
                             IF gm.items[ke[1]] # NilAny
                             THEN Append(@, <<ke[1], gm.items[ke[1]]>>) ELSE @]
            /\ UNCHANGED <<pc, ret, obs>>
    /\ UNCHANGED <<gm, arg, ncalls, hist, gmapRangeVars>>

\* for key, value := range mm { if !f(key, value) { break } }: one
\* iteration, the visitor keeping the pair and returning true, or, with
\* nothing left, the return.
GmapIter(p) ==
    /\ pc[p] = "g_iter"
    /\ IF todo[p] = {}
       THEN /\ pc' = [pc EXCEPT ![p] = "idle"]
            /\ ret' = [ret EXCEPT ![p] = <<"range", results[p]>>]
            /\ results' = [results EXCEPT ![p] = <<>>]
            /\ obs' = [obs EXCEPT ![p] = NoObs]
            /\ todo' = todo
       ELSE \E ke \in todo[p] :
            /\ todo' = [todo EXCEPT ![p] = @ \ {ke}]
            /\ results' = [results EXCEPT ![p] = Append(@, ke)]
            /\ UNCHANGED <<pc, ret, obs>>
    /\ UNCHANGED <<gm, arg, ncalls, hist, gmapRangeVars>>

\* The visitor of p's Range calls gmap.Store(m, k, v) between two
\* iterations: Lock, m.items[key] = value, Unlock.
GmapVisitorStore(p, k) ==
    /\ pc[p] = "g_iter" /\ todo[p] # {}
    /\ ncalls < MaxCalls
    /\ ~gm.w /\ gm.r = 0
    /\ ncalls' = ncalls + 1
    /\ gm' = [gm EXCEPT !.items[k] = ncalls + 1]
    /\ UNCHANGED <<pc, arg, ret, hist, syncMapVars>>

\* The visitor of p's Range calls gmap.Delete(m, k) between two iterations.
GmapVisitorDelete(p, k) ==
    /\ pc[p] = "g_iter" /\ todo[p] # {}
    /\ ncalls < MaxCalls
    /\ ~gm.w /\ gm.r = 0
    /\ ncalls' = ncalls + 1
    /\ gm' = [gm EXCEPT !.items[k] = NilAny]
    /\ UNCHANGED <<pc, arg, ret, hist, syncMapVars>>

NextGmapRange ==
    \/ \E p \in Procs, k \in KeySet : GmapLoadOrStore(p, k)
    \/ \E p \in Procs : GmapRead(p)
    \/ \E p \in Procs : GmapLock(p)
    \/ \E p \in Procs : GmapStore(p)
    \/ \E p \in Procs, k \in KeySet : GmapLoadAndDelete(p, k)
    \/ \E p \in Procs, k \in KeySet : GmapDeleteCall(p, k)
    \/ \E p \in Procs : GmapDelete(p)
    \/ \E p \in Procs, k \in KeySet : GmapStoreCall(p, k)
    \/ \E p \in Procs : GmapPut(p)
    \/ \E p \in Procs : GmapRange(p)
    \/ \E p \in Procs : GmapClone(p)
    \/ \E p \in Procs : GmapIter(p)
    \/ \E p \in Procs, k \in KeySet : GmapVisitorStore(p, k)
    \/ \E p \in Procs, k \in KeySet : GmapVisitorDelete(p, k)

SpecGmapRange == Init /\ [][NextGmapRange]_vars

\* The calls a visitor makes on the map it is ranging over.
VisitorOps == {"Store", "Delete", "LoadOrStore", "LoadAndDelete", "Load"}

\* One iteration of the loop of gmap.Range whose visitor, passed the pair,
\* calls vop on the same map with key k (and, to store, the number of the
\* call as value): arg keeps the visitor's call in f, k and v.
GmapVisit(p, vop, k) ==
    /\ pc[p] = "g_iter" /\ todo[p] # {}
    /\ ncalls < MaxCalls
    /\ ncalls' = ncalls + 1
    /\ \E ke \in todo[p] :
        /\ todo' = [todo EXCEPT ![p] = @ \ {ke}]
        /\ results' = [results EXCEPT ![p] = Append(@, ke)]
    /\ arg' = [arg EXCEPT ![p] = [op |-> "GmapRange", k |-> k, f |-> vop, v |-> ncalls + 1]]
    /\ pc' = [pc EXCEPT ![p] = "g_visit"]
    /\ UNCHANGED <<gm, ret, obs, hist, gmapRangeVars>>

\* The visitor's call takes the lock it needs, acts and releases it, and
\* the visitor returns true: Store, Delete and LoadAndDelete under Lock,
\* Load under RLock; LoadOrStore reads under RLock and, if the key is
\* absent, goes on to store under Lock.
GmapVisitApply(p) ==
    /\ pc[p] = "g_visit"
    /\ ~gm.w
    /\ arg[p].f \in {"Store", "Delete", "LoadAndDelete"} => gm.r = 0
    /\ gm' = IF arg[p].f = "Store" THEN [gm EXCEPT !.items[arg[p].k] = arg[p].v]
             ELSE IF arg[p].f \in {"Delete", "LoadAndDelete"}
                  THEN [gm EXCEPT !.items[arg[p].k] = NilAny]
             ELSE gm
    /\ IF arg[p].f = "LoadOrStore" /\ gm.items[arg[p].k] = NilAny
       THEN /\ arg' = [arg EXCEPT ![p].f = "Store"]
            /\ pc' = pc
       ELSE /\ arg' = arg
            /\ pc' = [pc EXCEPT ![p] = "g_iter"]
    /\ UNCHANGED <<todo, results, ret, obs, ncalls, hist, gmapRangeVars>>

\* if !f(key, value) { break }: the visitor returns false and Range
\* returns.
GmapBreak(p) ==
    /\ pc[p] = "g_iter" /\ todo[p] # {}
    /\ \E ke \in todo[p] :
        ret' = [ret EXCEPT ![p] = <<"range", Append(results[p], ke), "break">>]
    /\ pc' = [pc EXCEPT ![p] = "idle"]
    /\ todo' = [todo EXCEPT ![p] = {}]
    /\ results' = [results EXCEPT ![p] = <<>>]
    /\ obs' = [obs EXCEPT ![p] = NoObs]
    /\ UNCHANGED <<gm, arg, ncalls, hist, gmapRangeVars>>

NextGmapVisit ==
    \/ \E p \in Procs, k \in KeySet : GmapDeleteCall(p, k)
    \/ \E p \in Procs : GmapDelete(p)
    \/ \E p \in Procs, k \in KeySet : GmapStoreCall(p, k)
    \/ \E p \in Procs : GmapPut(p)
    \/ \E p \in Procs : GmapRange(p)
    \/ \E p \in Procs : GmapClone(p)
    \/ \E p \in Procs : GmapIter(p)
    \/ \E p \in Procs, vop \in VisitorOps, k \in KeySet : GmapVisit(p, vop, k)
    \/ \E p \in Procs : GmapVisitApply(p)
    \/ \E p \in Procs : GmapBreak(p)

\* A goroutine that holds the lock of the gmap.Map, or can take the one
\* its visitor's call waits for, or is in the loop of Range, goes on.
GmapFairness ==
    \A p \in Procs :
        /\ WF_vars(GmapDelete(p))
        /\ WF_vars(GmapPut(p))
        /\ WF_vars(GmapClone(p))
        /\ WF_vars(GmapIter(p))
        /\ WF_vars(GmapVisitApply(p))

\* A gmap.Map that is new, or on which Store("k1", v) and Store("k2", w)
\* have been called, v and w being values that no later call passes.
InitGmapVisit ==
    /\ innerMap = ZeroMap
    /\ entries = <<>>
    /\ items = <<>>
    /\ pc = [p \in Procs |-> "idle"]
    /\ arg = [p \in Procs |-> NoArg]
    /\ item = [p \in Procs |-> 0]
    /\ rd = [p \in Procs |-> ZeroReadOnly]
    /\ todo = [p \in Procs |-> {}]
    /\ results = [p \in Procs |-> <<>>]
    /\ ret = [p \in Procs |-> <<None>>]
    /\ ncalls = 0
    /\ crashed = FALSE
    /\ \/ gm = [items |-> [k \in KeySet |-> NilAny], w |-> FALSE, r |-> 0]
       \/ gm = [items |-> [k \in KeySet |-> IF k = "k1" THEN MaxCalls + 1 ELSE MaxCalls + 2],
                w |-> FALSE, r |-> 0]
    /\ cellinfo = <<>>
    /\ hist = HInit
    /\ obs = [p \in Procs |-> NoObs]
    /\ set = ZeroSet
    /\ strm = ZeroStream

SpecGmapVisit == InitGmapVisit /\ [][NextGmapVisit]_vars /\ GmapFairness

\* ------------------------------------------------------------ generic.Set
\* The value Set.Add stores under an element (true).
StoredTrue == 1

\* List.Add: append.
ListAdd(l, e) == Append(l, e)

\* List.Remove: delete the first item equal to e, if there is one.
ListRemove(l, e) ==
    IF \E i \in 1..Len(l) : l[i] = e
    THEN LET i == CHOOSE n \in 1..Len(l) : l[n] = e /\ \A j \in 1..(n - 1) : l[j] # e
         IN SubSeq(l, 1, i - 1) \o SubSeq(l, i + 1, Len(l))
    ELSE l

\* List.Size
ListSize(l) == Len(l)

SetFrame == <<innerMap, entries, items, pc, item, rd, todo, results, crashed,
              gm, cellinfo, hist, obs, strm>>

SetArg(op, e) == [op |-> op, k |-> None, f |-> None, v |-> e]

\* Set.Add(e): elemMap.LoadOrStore(e, true), and itemList.Add(e) if the
\* element was stored; returns !loaded.
SetAdd(p, e) ==
    /\ CanStart(p)
    /\ LET loaded == set.elemMap[e] # NilAny
       IN /\ set' = [itemList |-> IF loaded THEN set.itemList
                                  ELSE ListAdd(set.itemList, e),
                     elemMap |-> IF loaded THEN set.elemMap
                                 ELSE [set.elemMap EXCEPT ![e] = StoredTrue]]
          /\ ret' = [ret EXCEPT ![p] = <<"bool", ~loaded>>]
    /\ arg' = [arg EXCEPT ![p] = SetArg("Set.Add", e)]
    /\ ncalls' = ncalls + 1
    /\ UNCHANGED SetFrame

\* Set.Remove(e): elemMap.Delete(e); itemList.Remove(e).
SetRemoveMapOnly(p, e) ==
    /\ CanStart(p)
    /\ set' = [set EXCEPT !.elemMap[e] = NilAny]
    /\ ret' = [ret EXCEPT ![p] = <<"void">>]
    /\ arg' = [arg EXCEPT ![p] = SetArg("Set.Remove", e)]
    /\ ncalls' = ncalls + 1
    /\ UNCHANGED SetFrame

SetRemove(p, e) ==
    /\ CanStart(p)
    /\ set' = [itemList |-> ListRemove(set.itemList, e),
               elemMap |-> [set.elemMap EXCEPT ![e] = NilAny]]
    /\ ret' = [ret EXCEPT ![p] = <<"void">>]
    /\ arg' = [arg EXCEPT ![p] = SetArg("Set.Remove", e)]
    /\ ncalls' = ncalls + 1
    /\ UNCHANGED SetFrame

\* Set.Clear(): itemList.Clear(); s.elemMap = sync.Map{}.
SetClear(p) ==
    /\ CanStart(p)
    /\ set' = ZeroSet
    /\ ret' = [ret EXCEPT ![p] = <<"void">>]
    /\ arg' = [arg EXCEPT ![p] = SetArg("Set.Clear", 0)]
    /\ ncalls' = ncalls + 1
    /\ UNCHANGED SetFrame

\* Set.Contains(e): elemMap.Load(e)
SetContains(p, e) ==
    /\ CanStart(p)
    /\ ret' = [ret EXCEPT ![p] = <<"bool", set.elemMap[e] # NilAny>>]
    /\ arg' = [arg EXCEPT ![p] = SetArg("Set.Contains", e)]
    /\ ncalls' = ncalls + 1
    /\ UNCHANGED <<set, SetFrame>>

\* Set.Size(): itemList.Size()
SetSize(p) ==
    /\ CanStart(p)
    /\ ret' = [ret EXCEPT ![p] = <<"int", ListSize(set.itemList)>>]
    /\ arg' = [arg EXCEPT ![p] = SetArg("Set.Size", 0)]
    /\ ncalls' = ncalls + 1
    /\ UNCHANGED <<set, SetFrame>>

\* The calls of a Set are made one after the other: each is one step.
NextSet ==
    \E p \in Procs :
        \/ \E e \in Elems : SetAdd(p, e)
        \/ \E e \in Elems : SetRemove(p, e)
        \/ SetClear(p)
        \/ \E e \in Elems : SetContains(p, e)
        \/ SetSize(p)

\* The Set after Add(l[1]), ..., Add(l[n]) on a new Set, the l[i] distinct.
SetOf(l) == [itemList |-> l,
             elemMap |-> [e \in Elems |-> IF \E i \in 1..Len(l) : l[i] = e
                                          THEN StoredTrue ELSE NilAny]]

\* A new Set, or a Set on which Add has been called for distinct elements.
InitSet ==
    /\ innerMap = ZeroMap
    /\ entries = <<>>
    /\ items = <<>>
    /\ pc = [p \in Procs |-> "idle"]
    /\ arg = [p \in Procs |-> NoArg]
    /\ item = [p \in Procs |-> 0]
    /\ rd = [p \in Procs |-> ZeroReadOnly]
    /\ todo = [p \in Procs |-> {}]
    /\ results = [p \in Procs |-> <<>>]
    /\ ret = [p \in Procs |-> <<None>>]
    /\ ncalls = 0
    /\ crashed = FALSE
    /\ gm = [items |-> [k \in KeySet |-> NilAny], w |-> FALSE, r |-> 0]
    /\ cellinfo = <<>>
    /\ hist = HInit
    /\ obs = [p \in Procs |-> NoObs]
    /\ \E n \in 0..Cardinality(Elems) :
           \E l \in [1..n -> Elems] :
               /\ \A i, j \in 1..n : i # j => l[i] # l[j]
               /\ set = SetOf(l)
    /\ strm = ZeroStream

SpecSet == InitSet /\ [][NextSet]_vars

\* ---------------------------------------------------------- stream.Stream
\* The longest Stream.
MaxLen == 3

\* Accumulators: sub returns (preItem - nextItem, nil), shift returns
\* (3 * preItem + nextItem, nil), fail1 returns (0, "E") when nextItem is 1
\* and (preItem + nextItem, nil) otherwise.
Accumulators == {"sub", "shift", "fail1"}

accumulator(f, preItem, nextItem) ==
    CASE f = "sub" -> [t |-> preItem - nextItem, err |-> NoErr]
      [] f = "shift" -> [t |-> 3 * preItem + nextItem, err |-> NoErr]
      [] f = "fail1" -> IF nextItem = 1 THEN [t |-> 0, err |-> "E"]
                        ELSE [t |-> preItem + nextItem, err |-> NoErr]

\* Stream._reduce: the loop from index beginItem (counted from 0), result
\* being the value accumulated so far.
RECURSIVE reduce(_, _, _, _)
reduce(s, result, beginItem, f) ==
    IF beginItem >= Len(s.elems) THEN [t |-> result, err |-> NoErr]
    ELSE LET r == accumulator(f, result, s.elems[beginItem + 1])
         IN IF r.err # NoErr THEN [t |-> 0, err |-> r.err]
            ELSE reduce(s, r.t, beginItem + 1, f)

\* Stream.ReduceWithInit
ReduceWithInit(s, initItem, f) ==
    IF s.err # NoErr THEN [t |-> 0, err |-> s.err]
    ELSE IF Len(s.elems) = 0 THEN [t |-> 0, err |-> NoErr]
    ELSE reduce(s, initItem, 0, f)

\* A call of strm.ReduceWithInit(initItem, f)
ReduceWithInitCall(p, initItem, f) ==
    /\ CanStart(p)
    /\ LET r == ReduceWithInit(strm, initItem, f)
       IN ret' = [ret EXCEPT ![p] = <<r.t, r.err>>]
    /\ arg' = [arg EXCEPT ![p] = [op |-> "ReduceWithInit", k |-> None, f |-> f,
                                  v |-> initItem]]
    /\ ncalls' = ncalls + 1
    /\ UNCHANGED <<set, SetFrame>>

NextStream ==
    \E p \in Procs : \E initItem \in Elems : \E f \in Accumulators :
        ReduceWithInitCall(p, initItem, f)

\* A Stream of at most MaxLen elements, with or without an error.
InitStream ==
    /\ innerMap = ZeroMap
    /\ entries = <<>>
    /\ items = <<>>
    /\ pc = [p \in Procs |-> "idle"]
    /\ arg = [p \in Procs |-> NoArg]
    /\ item = [p \in Procs |-> 0]
    /\ rd = [p \in Procs |-> ZeroReadOnly]
    /\ todo = [p \in Procs |-> {}]
    /\ results = [p \in Procs |-> <<>>]
    /\ ret = [p \in Procs |-> <<None>>]
    /\ ncalls = 0
    /\ crashed = FALSE
    /\ gm = [items |-> [k \in KeySet |-> NilAny], w |-> FALSE, r |-> 0]
    /\ cellinfo = <<>>
    /\ hist = HInit
    /\ obs = [p \in Procs |-> NoObs]
    /\ set = ZeroSet
    /\ \E n \in 0..MaxLen : \E l \in [1..n -> Elems] : \E e \in {NoErr, "E"} :
           strm = [elems |-> l, err |-> e]

SpecStream == InitStream /\ [][NextStream]_vars

\* ------------------------------------------------------------ properties
\* The calls of GetOrLoad with a loader that have returned.
Returned(p) == pc[p] = "idle" /\ arg[p].op = "GetOrLoad" /\ arg[p].f # NilFunc
Cells(k) == {c \in 1..Len(items) : cellinfo[c].k = k}
Invoked(c) == Len(cellinfo[c].invoked)
\* p's call of GetOrLoad returns in this step.
Returns(p) == pc[p] # "idle" /\ pc'[p] = "idle" /\ arg[p].op = "GetOrLoad"

\* The call of p that returns in this step has overlapped no other call.
Alone(p) ==
    IF pc[p] = "idle" THEN \A q \in Procs \ {p} : pc[q] = "idle"
    ELSE hist.solo[p] # "no"

\* C1: for a key on which neither Evict nor Clear has been called, however
\* the calls of GetOrLoad(k, .) interleave, the loaders are invoked at most
\* once in total, and every call that has returned has returned the pair
\* that the one invoked loader produced.
C1_AtMostOnce ==
    \A k \in KeySet :
        (k \notin hist.evicts /\ ~hist.clears) =>
            /\ Cardinality(Cells(k)) <= 1
            /\ \A c \in Cells(k) : Invoked(c) <= 1
            /\ \A p \in Procs :
                (Returned(p) /\ arg[p].k = k) =>
                    \E c \in Cells(k) :
                        /\ Invoked(c) = 1
                        /\ ret[p] = <<"pair", LoaderResult(cellinfo[c].invoked[1], k)>>

\* Two calls on the same key, racing with different loaders, have both
\* returned, and the key was never evicted nor the cache cleared.
C1_Witness ==
    /\ ~hist.clears
    /\ \E k \in KeySet :
        /\ k \notin hist.evicts
        /\ Returned(1) /\ Returned(2)
        /\ arg[1].k = k /\ arg[2].k = k
        /\ arg[1].f # arg[2].f
        /\ ret[1] = ret[2]
        /\ ncalls = 2

C5_EvictRecomputes ==
    [][\A p \in Procs :
        /\ (hist'.solo[p] = "evict" /\ pc'[p] = "once")
              => /\ ~items'[item'[p]].done
                 /\ cellinfo'[item'[p]].invoked = <<>>
        /\ (Returns(p) /\ hist.solo[p] = "evict")
              => /\ ret'[p] = <<"pair", LoaderResult(arg[p].f, arg[p].k)>>
                 /\ item[p] # 0
                 /\ cellinfo'[item[p]].invoked = <<arg[p].f>>]_vars

\* After a GetOrLoad(k, fA) and an Evict(k) that returned true, a
\* GetOrLoad(k, fE) is running its loader on a second cell of the key.
C5_Witness ==
    \E p \in Procs :
        /\ pc[p] = "loading" /\ hist.solo[p] = "evict"
        /\ arg[p].f = "fE"
        /\ \E c \in Cells(arg[p].k) :
            /\ c # item[p] /\ items[c].done
            /\ cellinfo[c].invoked = <<"fA">>

\* C6: when a Clear that overlapped no other call returns, a Load of any
\* key finds nothing; a Keys that follows returns no key; and a GetOrLoad
\* that follows on a key invokes its loader, on a new cell, and returns the
\* pair the loader produces.
C6_ClearResets ==
    [][\A p \in Procs :
        /\ (pc'[p] = "idle" /\ ret'[p] = <<"cleared">> /\ Alone(p)
                /\ (pc[p] = "clearing" \/ hist'.tick[p] # hist.tick[p]))
              => \A k \in KeySet : MapLoad(innerMap', entries', k) = NilAny
        /\ (pc[p] = "rng_iter" /\ pc'[p] = "idle" /\ hist.solo[p] = "clear")
              => ret'[p] = <<"keys", <<>> >>
        /\ (hist'.solo[p] = "clear" /\ pc'[p] = "once")
              => /\ ~items'[item'[p]].done
                 /\ cellinfo'[item'[p]].invoked = <<>>
        /\ (Returns(p) /\ hist.solo[p] = "clear")
              => /\ ret'[p] = <<"pair", LoaderResult(arg[p].f, arg[p].k)>>
                 /\ item[p] # 0
                 /\ cellinfo'[item[p]].invoked = <<arg[p].f>>]_vars

\* After a key was populated and the cache cleared, a GetOrLoad of the key
\* is running its loader on a second cell of the key.
C6_Witness ==
    \E p \in Procs :
        /\ pc[p] = "loading" /\ hist.solo[p] = "clear"
        /\ \E c \in Cells(arg[p].k) : c # item[p] /\ items[c].done

\* The calls of GetOrLoad that a panic inside the map has unwound.
MapPanic(p) ==
    pc[p] = "idle" /\ arg[p].op = "GetOrLoad" /\ arg[p].f # NilFunc /\ ret[p] = <<"panic">>

\* C7: Clear is atomic with respect to the calls that run together with
\* it: no call meets a partly replaced map (the runtime throws no fatal
\* error at an unlock and no call panics inside the map), and a GetOrLoad
\* that began after a Clear had returned holds no cell made before that
\* Clear began.
C7_ClearAtomic ==
    /\ ~crashed
    /\ \A p \in Procs : ~MapPanic(p)
    /\ \A p \in Procs :
        (pc[p] \in {"once", "doSlow", "loading"}) => item[p] > arg[p].v

\* The error a loader returns, as GetOrLoad returns it.
ErrPair == [value |-> Zero, err |-> "E"]

NilCall(p) ==
    /\ ncalls' = ncalls + 1
    /\ arg'[p].op = "GetOrLoad" /\ arg'[p].f = NilFunc
    /\ hist'.tick[p] # hist.tick[p] \/ pc'[p] # pc[p]

\* C9: GetOrLoad(k, nil) panics at once whether k is cached or not, and
\* leaves the map, its entries, the cells and what they hold as they were,
\* as well as what the calls before it have established for the calls that
\* follow.
C9_NilLoaderPanics ==
    [][\A p \in Procs :
        NilCall(p) =>
            /\ pc'[p] = "idle" /\ ret'[p] = <<"panic">>
            /\ UNCHANGED <<innerMap, entries, items, cellinfo, item, rd>>
            /\ hist'.settled = hist.settled /\ hist'.firm = hist.firm
            /\ hist'.gone = hist.gone]_vars

\* GetOrLoad(k, nil) has panicked on a key that is cached, and the pair
\* cached for the key is still the one later calls are to get.
C9_Witness ==
    \E p \in Procs :
        /\ pc[p] = "idle" /\ arg[p].op = "GetOrLoad" /\ arg[p].f = NilFunc
        /\ ret[p] = <<"panic">>
        /\ MapLoad(innerMap, entries, arg[p].k) # NilAny
        /\ items[MapLoad(innerMap, entries, arg[p].k)].done
        /\ hist.firm[arg[p].k] = Pair(items, MapLoad(innerMap, entries, arg[p].k))

\* p's call of Evict returns in this step.
EvictReturns(p) ==
    /\ arg'[p].op = "Evict" /\ pc'[p] = "idle"
    /\ pc[p] = "lad_apply" \/ hist'.tick[p] # hist.tick[p]

\* C10: the step at which an Evict(k) returns that overlapped no other
\* call: it returns true iff a Load of k found an entry, afterwards a Load
\* of k finds none, and a Load of any other key finds what it found before.
C10_EvictReports ==
    [][\A p \in Procs :
        (EvictReturns(p) /\ Alone(p)) =>
            /\ ret'[p] = <<"bool", MapLoad(innerMap, entries, arg'[p].k) # NilAny>>
            /\ MapLoad(innerMap', entries', arg'[p].k) = NilAny
            /\ \A k \in KeySet \ {arg'[p].k} :
                MapLoad(innerMap', entries', k) = MapLoad(innerMap, entries, k)]_vars

\* Of the calls of LoadOrStore on k that have returned, given what hist.los
\* holds: all returned the same value, at most one returned loaded=false,
\* that one returned the value it passed, and once every call has returned
\* one of them did return loaded=false.
OneCreator(los, allReturned) ==
    /\ \A r1, r2 \in los : r1.actual = r2.actual
    /\ Cardinality({r \in los : ~r.loaded}) <= 1
    /\ \A r \in los : r.loaded = (r.actual # r.v)
    /\ (allReturned /\ los # {}) => \E r \in los : ~r.loaded

\* p's call of Map.LoadOrStore returns in this step.
LoadOrStoreReturns(p) ==
    /\ arg'[p].op = "LoadOrStore" /\ pc'[p] = "idle"
    /\ pc[p] = "los_apply" \/ hist'.tick[p] # hist.tick[p]

\* C3: for generic.Map, of the calls of LoadOrStore on a key that LoadAndDelete
\* was never called on, exactly one returns loaded=false and all return the
\* value that one passed; and the step at which a LoadOrStore(k, v) returns
\* finds by a Load of k either a value, which it returns with loaded=true,
\* the map staying as it is, or nothing, and then it returns (v, false) and
\* a Load of k finds v, the other keys staying as they are.
C3_LoadOrStoreAtomic ==
    [][/\ \A k \in KeySet \ hist'.evicts :
            OneCreator(hist'.los[k], \A p \in Procs : pc'[p] = "idle")
       /\ \A p \in Procs :
            LoadOrStoreReturns(p) =>
                LET k == arg'[p].k
                    old == MapLoad(innerMap, entries, k)
                    now == IF old = NilAny THEN arg'[p].v ELSE old
                IN /\ ret'[p] = <<"los", now, old # NilAny>>
                   /\ MapLoad(innerMap', entries', k) = now
                   /\ \A k2 \in KeySet \ {k} :
                        MapLoad(innerMap', entries', k2) = MapLoad(innerMap, entries, k2)]_vars

\* Two calls of LoadOrStore that raced on an absent key have returned, one
\* with loaded=false, the other with loaded=true and the value of the first.
C3_Witness ==
    \E k \in KeySet :
        /\ k \notin hist.evicts
        /\ \A p \in Procs : pc[p] = "idle" /\ arg[p].op = "LoadOrStore" /\ arg[p].k = k
        /\ ncalls = 2
        /\ ret[1][2] = ret[2][2]
        /\ ret[1][3] # ret[2][3]
        /\ Cardinality(hist.los[k]) = 2

\* C4: for gmap.Map, of the calls of gmap.LoadOrStore on a key that was
\* absent and that LoadAndDelete was never called on, at most one returns
\* loaded=false, and exactly one once all have returned.
C4_GmapOneCreator ==
    \A k \in KeySet \ hist.evicts :
        /\ Cardinality({r \in hist.los[k] : ~r.loaded}) <= 1
        /\ ((\A p \in Procs : pc[p] = "idle") /\ hist.los[k] # {})
              => \E r \in hist.los[k] : ~r.loaded

\* The calls of GetOrLoad that have resolved a cell and not yet returned.
Holding(p) == pc[p] \in {"once", "doSlow", "loading"}

\* C11: a call of GetOrLoad that has resolved a cell keeps that cell
\* whatever Evict and Clear do in the meantime: no step of another call
\* takes a running loader off its cell or changes the cell, and the call
\* returns the pair produced by the one loader invoked on that cell.  A new
\* cell is made for a key that has a cell only once Evict of the key or
\* Clear was called, and, Clear apart, only when the map has no entry for
\* the key.
C11_InFlightKept ==
    [][/\ \A p \in Procs :
            Holding(p) =>
                /\ pc'[p] # "idle" => (item'[p] = item[p] /\ pc'[p] \in {"once", "doSlow", "loading"})
                /\ (pc[p] = "loading" /\ pc'[p] = "loading")
                      => (items'[item[p]] = items[item[p]]
                            /\ cellinfo'[item[p]] = cellinfo[item[p]])
                /\ pc'[p] = "idle"
                      => /\ Len(cellinfo'[item[p]].invoked) = 1
                         /\ ret'[p] = <<"pair", LoaderResult(cellinfo'[item[p]].invoked[1],
                                                             cellinfo[item[p]].k)>>
       /\ Len(items') > Len(items) =>
            LET k == cellinfo'[Len(items')].k
            IN /\ Cells(k) # {} => (k \in hist.evicts \/ hist.clears)
               /\ ~hist.clears => MapLoad(innerMap, entries, k) = NilAny]_vars

\* A loader is running on a cell that an Evict has taken out of the map,
\* and a call that looked the key up afterwards runs its own loader on a
\* second cell.
C11_Witness ==
    \E p, q \in Procs :
        /\ p # q /\ pc[p] = "loading" /\ pc[q] = "loading"
        /\ arg[p].k = arg[q].k /\ item[p] < item[q]
        /\ arg[p].k \in hist.evicts /\ ~hist.clears
        /\ MapLoad(innerMap, entries, arg[p].k) = item[q]

\* p's call of Map.CompareAndSwap returns in this step.
CompareAndSwapReturns(p) ==
    /\ arg'[p].op = "CompareAndSwap" /\ pc'[p] = "idle"
    /\ pc[p] = "cas_apply" \/ hist'.tick[p] # hist.tick[p]

\* The step at which a CompareAndSwap(k, old, new) returns: it returns
\* true iff a Load of k finds old; then a Load of k finds new afterwards,
\* otherwise what it found before; the other keys stay as they are.
CompareAndSwapStep(p) ==
    LET k == arg'[p].k
        cur == MapLoad(innerMap, entries, k)
        ok == cur = arg'[p].old
    IN /\ ret'[p] = <<"bool", ok>>
       /\ MapLoad(innerMap', entries', k) = IF ok THEN arg'[p].v ELSE cur
       /\ \A k2 \in KeySet \ {k} :
            MapLoad(innerMap', entries', k2) = MapLoad(innerMap, entries, k2)

\* C12 as stated: CompareAndSwap(k, old, new) returns true and sets k to
\* new iff k holds old, and otherwise returns false and leaves the map as
\* it is; of the calls of CompareAndSwap(k, old, .) that run together, at
\* most one returns true.
C12_Original ==
    [][\A p \in Procs :
        CompareAndSwapReturns(p) =>
            /\ CompareAndSwapStep(p)
            /\ hist.beat[p] # "no" => ret'[p] = <<"bool", FALSE>>]_vars

\* C12 amended: the same, at most one of the calls that run together
\* returning true when each is passed a new that differs from old.
C12_Amended ==
    [][\A p \in Procs :
        CompareAndSwapReturns(p) =>
            /\ CompareAndSwapStep(p)
            /\ hist.beat[p] = "other" => ret'[p] = <<"bool", FALSE>>]_vars

\* Two calls of CompareAndSwap with the same key and old, and each with a
\* new of its own, ran together: the first returned true, the second false.
C12_Witness ==
    \E p, q \in Procs :
        /\ p # q /\ pc[p] = "idle" /\ pc[q] = "idle"
        /\ arg[p].op = "CompareAndSwap" /\ arg[q].op = "CompareAndSwap"
        /\ arg[p].k = arg[q].k /\ arg[p].old = arg[q].old
        /\ arg[p].v # arg[p].old /\ arg[q].v # arg[q].old
        /\ ret[p] = <<"bool", TRUE>> /\ ret[q] = <<"bool", FALSE>>
        /\ MapLoad(innerMap, entries, arg[p].k) = arg[p].v
        /\ ncalls = MaxCalls

\* C13: every pair that a Map.Range in flight has passed to its visitor is
\* a pair the map held at the instant the Range was called; so a key
\* inserted by another caller after that instant is not visited.
C13_RangeSnapshot ==
    \A p \in Procs :
        (arg[p].op = "Range" /\ pc[p] \in RangePcs) =>
            \A i \in 1..Len(results[p]) :
                obs[p].first[results[p][i][1]] = results[p][i][2]

\* C16: the number a Size returns is the number of keys the map had at
\* one of the instants between the call and the return.
C16_SizeAtInstant ==
    [][\A p \in Procs :
        (arg[p].op = "Size" /\ pc[p] = "rng_iter" /\ pc'[p] = "idle") =>
            \E ks \in obs[p].seen : ret'[p] = <<"size", Cardinality(ks)>>]_vars

\* The pairs a sequence of visits holds.
Visited(res) == {res[i] : i \in 1..Len(res)}

\* C14: the pairs a gmap.Range passes to its visitor are the pairs the map
\* held at the instant the clone was taken: at every moment of the loop
\* the pairs visited and the pairs still to visit are together those pairs,
\* none of them twice, whatever the other callers and the visitor store and
\* delete meanwhile, and at the return every one of them has been visited.
C14_GmapRangeSnapshot ==
    [][\A p \in Procs :
        /\ pc'[p] = "g_iter"
              => /\ Visited(results'[p]) \cup todo'[p] = Clone(obs'[p].first)
                 /\ Len(results'[p]) + Cardinality(todo'[p]) = Cardinality(Clone(obs'[p].first))
        /\ (pc[p] = "g_clone" /\ pc'[p] = "g_iter") => obs'[p].first = gm.items
        /\ (pc[p] = "g_iter" /\ pc'[p] = "idle")
              => /\ ret'[p][1] = "range"
                 /\ Visited(ret'[p][2]) = Clone(obs[p].first)
                 /\ Len(ret'[p][2]) = Cardinality(Clone(obs[p].first))]_vars

\* A gmap.Range has visited every pair of its clone while the map has
\* changed under it: a key visited with one value holds another by now.
C14_Witness ==
    \E p \in Procs :
        /\ pc[p] = "g_iter" /\ todo[p] = {} /\ results[p] # <<>>
        /\ \E i \in 1..Len(results[p]) :
            /\ gm.items[results[p][i][1]] # results[p][i][2]
            /\ gm.items[results[p][i][1]] # NilAny

\* The calls of LoadAndDelete on the generic.Map, Evict being one.
LadOps == {"LoadAndDelete", "Evict"}

\* p's call of Map.LoadAndDelete, or of Evict, returns in this step.
LoadAndDeleteReturns(p) ==
    /\ arg'[p].op \in LadOps /\ pc'[p] = "idle"
    /\ pc[p] = "lad_apply" \/ hist'.tick[p] # hist.tick[p]

\* q's last call has returned: a LoadAndDelete of the map of op and of
\* the key k, which found the key.
Took(q, ops, k) ==
    /\ pc[q] = "idle" /\ arg[q].op \in ops /\ arg[q].k = k
    /\ ret[q][Len(ret[q])] = TRUE

\* C15: the step at which a LoadAndDelete(k) returns, on a generic.Map
\* (Evict included) and on a gmap.Map: it returns the value a load of k
\* found and true, or the zero value and false when the load found none;
\* afterwards k is absent and the other keys are as they were.  No call
\* storing, a call returns false when the other goroutine's call on the
\* same key has returned true.
C15_LoadAndDeleteAtomic ==
    [][\A p \in Procs :
        /\ LoadAndDeleteReturns(p) =>
            LET k == arg'[p].k
                old == MapLoad(innerMap, entries, k)
            IN /\ ret'[p] = LoadAndDeleteResult(arg'[p].op, old, old # NilAny)
               /\ MapLoad(innerMap', entries', k) = NilAny
               /\ \A k2 \in KeySet \ {k} :
                    MapLoad(innerMap', entries', k2) = MapLoad(innerMap, entries, k2)
               /\ \A q \in Procs \ {p} :
                    Took(q, LadOps, k) => ret'[p][Len(ret'[p])] = FALSE
        /\ (pc[p] = "g_delete" /\ pc'[p] = "idle") =>
            LET k == arg[p].k
            IN /\ ret'[p] = <<"lad", gm.items[k], gm.items[k] # NilAny>>
               /\ gm'.items = [gm.items EXCEPT ![k] = NilAny]
               /\ \A q \in Procs \ {p} :
                    Took(q, {"GmapLoadAndDelete"}, k) => ret'[p][3] = FALSE]_vars

\* The two goroutines have each made one call of LoadAndDelete on the same
\* key of the same map, the key being present: one returned true, the
\* other false.
LadRace(ops) ==
    \E p, q \in Procs :
        /\ p # q /\ ncalls = 2
        /\ pc[p] = "idle" /\ pc[q] = "idle"
        /\ arg[p].op \in ops /\ arg[q].op \in ops /\ arg[p].k = arg[q].k
        /\ ret[p][Len(ret[p])] = TRUE /\ ret[q][Len(ret[q])] = FALSE

C15_Witness == LadRace(LadOps)

\* C17: on a cache on which Clear was never called, the keys a Keys
\* returns, each listed once, are the key set the cache had at one of the
\* instants between the call and the return.
C17_KeysSnapshot ==
    [][\A p \in Procs :
        (arg[p].op = "Keys" /\ pc[p] = "rng_iter" /\ pc'[p] = "idle" /\ ~hist.clears) =>
            /\ ret'[p][1] = "keys"
            /\ Len(ret'[p][2]) = Cardinality(Visited(ret'[p][2]))
            /\ Visited(ret'[p][2]) \in obs[p].seen]_vars

\* C18: under fair scheduling, once the loader run on a cell has returned,
\* every call of GetOrLoad that has resolved that cell returns, those
\* blocked on the guard while the loader ran included, and no cell has a
\* loader run on it twice.
C18_CallersReturn ==
    /\ [](\A c \in 1..Len(items) : Invoked(c) <= 1)
    /\ \A p \in Procs : (Holding(p) /\ items[item[p]].done) ~> (pc[p] = "idle")

Stepped(p) ==
    \/ pc'[p] # pc[p] \/ arg'[p] # arg[p] \/ todo'[p] # todo[p] \/ rd'[p] # rd[p]
    \/ hist'.tick[p] # hist.tick[p]

\* C20: a step of Evict, of Clear or of Keys invokes no loader and leaves
\* every cell as it is, unfired or fired, with the pair it holds, and
\* leaves the calls of GetOrLoad with the cells they hold; a step of Evict
\* or of Clear leaves each key with the cell it had or with none; a step of
\* Keys leaves each key with the cell it had.
C20_Bookkeeping ==
    [][\A p \in Procs :
        (Stepped(p) /\ arg'[p].op \in {"Evict", "Clear", "Keys"}) =>
            /\ items' = items /\ cellinfo' = cellinfo /\ item' = item
            /\ \A k \in KeySet :
                  MapLoad(innerMap', entries', k) \in {MapLoad(innerMap, entries, k), NilAny}
            /\ arg'[p].op = "Keys" => Contents(innerMap', entries') = Contents(innerMap, entries)]_vars

\* C23: at the step at which a call of GetOrLoad returns from its cell, the
\* cell is fired and unlocked, one loader has been invoked on it, the cell
\* holds the pair that loader produces for the cell's key, and that pair is
\* what the call returns.
C23_ReturnsAfterLoader ==
    [][\A p \in Procs :
        (Holding(p) /\ pc'[p] = "idle") =>
            LET c == item[p]
            IN /\ items'[c].done /\ ~items'[c].locked
               /\ Len(cellinfo'[c].invoked) = 1
               /\ Pair(items', c) = LoaderResult(cellinfo'[c].invoked[1], cellinfo'[c].k)
               /\ ret'[p] = <<"pair", Pair(items', c)>>]_vars

\* A call of GetOrLoad found its cell unfired and went on to the once's
\* mutex; the loader of the other goroutine's call has returned meanwhile,
\* and that call with it.
C23_Witness ==
    \E p, q \in Procs :
        /\ pc[p] = "doSlow" /\ items[item[p]].done
        /\ cellinfo[item[p]].invoked = <<"fA">> /\ arg[p].f = "fE"
        /\ pc[q] = "idle" /\ arg[q].op = "GetOrLoad" /\ arg[q].f = "fA"
        /\ ret[q] = <<"pair", Pair(items, item[p])>>

\* The loaders invoked so far for key k, over all its cells.
InvokedFor(k) ==
    LET RECURSIVE Sum(_)
        Sum(c) == IF c = 0 THEN 0
                  ELSE Sum(c - 1) + (IF cellinfo[c].k = k THEN Invoked(c) ELSE 0)
    IN Sum(Len(cellinfo))

\* C26: in every state, on no cell has more than one loader been invoked,
\* and for every key the loaders invoked are at most one more than the
\* calls of Evict of the key that returned true and the calls of Clear
\* together.
C26_InvocationBound ==
    /\ \A c \in 1..Len(items) : Invoked(c) <= 1
    /\ \A k \in KeySet : InvokedFor(k) <= 1 + hist.nevict[k] + hist.nclear

\* C25: for gmap.Map and a key that was absent and that LoadAndDelete was
\* never called on, the calls of gmap.LoadOrStore that have returned have
\* all returned the same actual value, and that value is the one the map
\* holds under the key.
C25_GmapOneValue ==
    \A k \in KeySet \ hist.evicts :
        \A r \in hist.los[k] :
            /\ gm.items[k] = r.actual
            /\ \A r2 \in hist.los[k] : r2.actual = r.actual

\* C24: a call the visitor of a gmap.Range makes on the same map comes back
\* to the loop; the loop visits pairs of the clone only, none twice, and
\* Range returns having visited them all or at the visit that returned
\* false; and every Range that was called returns.
C24_RangeTerminates ==
    /\ [][\A p \in Procs :
            /\ pc[p] = "g_visit" => pc'[p] \in {"g_visit", "g_iter"}
            /\ pc'[p] \in {"g_iter", "g_visit"}
                  => /\ Visited(results'[p]) \subseteq Clone(obs'[p].first)
                     /\ Len(results'[p]) = Cardinality(Visited(results'[p]))
            /\ (pc[p] = "g_iter" /\ pc'[p] = "idle")
                  => /\ Visited(ret'[p][2]) \subseteq Clone(obs[p].first)
                     /\ Len(ret'[p][2]) = Cardinality(Visited(ret'[p][2]))
                     /\ Len(ret'[p]) = 2 => Visited(ret'[p][2]) = Clone(obs[p].first)]_vars
    /\ \A p \in Procs : (pc[p] \in {"g_clone", "g_iter", "g_visit"}) ~> (pc[p] = "idle")

\* A Range is in its loop, its visitor has stored a new value under a key
\* and come back, and a pair is still to be visited.
C24_Witness ==
    \E p \in Procs :
        /\ pc[p] = "g_iter" /\ todo[p] # {} /\ results[p] # <<>>
        /\ arg[p].f = "Store" /\ gm.items[arg[p].k] = arg[p].v
        /\ obs[p].first[arg[p].k] # arg[p].v

\* C30: a cell that the map holds under a key and that is unfired belongs
\* to a call of GetOrLoad of that key in flight: one that holds the cell
\* and has not left once.Do, or one that is still inside LoadOrStore.  So
\* when no call is in flight every cell the map holds is fired.
C30_QuiescentFired ==
    \A k \in KeySet :
        LET c == MapLoad(innerMap, entries, k)
        IN (c # NilAny /\ ~items[c].done) =>
              \E p \in Procs :
                  /\ arg[p].op = "GetOrLoad" /\ arg[p].f # NilFunc
                  /\ \/ Holding(p) /\ item[p] = c
                     \/ pc[p] = "los_apply" /\ arg[p].k = cellinfo[c].k

\* No call is in flight: the map holds a fired cell under one key, and a
\* GetOrLoad with a nil loader was rejected on the other key, which has no
\* entry.
C30_Witness ==
    /\ \A p \in Procs : pc[p] = "idle"
    /\ \E k \in KeySet :
        /\ MapLoad(innerMap, entries, k) # NilAny
        /\ items[MapLoad(innerMap, entries, k)].done
    /\ \E p \in Procs :
        /\ arg[p].op = "GetOrLoad" /\ arg[p].f = NilFunc /\ ret[p] = <<"panic">>
        /\ MapLoad(innerMap, entries, arg[p].k) = NilAny
        /\ Cells(arg[p].k) = {}

\* A loader is running for SlowKey.
SlowLoading == \E q \in Procs : pc[q] = "loading" /\ arg[q].k = SlowKey

\* C29: under a fair scheduler, and whether or not the loaders run for
\* SlowKey return, a call of Evict, of Keys or of Clear that is in flight
\* while a loader runs for SlowKey returns, and so does a call of GetOrLoad
\* on another key.
C29_OtherKeysProgress ==
    \A p \in Procs :
        (SlowLoading /\ pc[p] # "idle" /\ (arg[p].op = "GetOrLoad" => arg[p].k # SlowKey))
            ~> (pc[p] = "idle")

\* The state SpecTorn begins with, as SpecWarm reaches it (but for
\* ncalls).
TornReached ==
    /\ innerMap = [mu |-> FALSE, read |-> [m |-> EmptyM, amended |-> TRUE],
                   dirty |-> NilMap, misses |-> 0]
    /\ entries = <<1, 2>> /\ Len(items) = 2 /\ items[1] = items[2] /\ items[2].done
    /\ pc = [p \in Procs |-> "idle"] /\ item = [p \in Procs |-> 0]
    /\ arg[1] = [op |-> "Clear", k |-> None, f |-> None, v |-> 1]
    /\ arg[2] = [op |-> "GetOrLoad", k |-> "k1", f |-> "fA", v |-> 0]
    /\ ret = << <<"cleared">>, <<"pair", LoaderResult("fA", "k1")>> >>
    /\ rd = [p \in Procs |-> ZeroReadOnly] /\ todo = [p \in Procs |-> {}]
    /\ results = [p \in Procs |-> <<>>]
    /\ cellinfo = <<[k |-> "k1", invoked |-> <<"fA">>], [k |-> "k1", invoked |-> <<"fA">>]>>
    /\ hist = [HInit EXCEPT !.clears = TRUE, !.nclear = 1, !.cutoff = 1,
                            !.settled["k1"] = LoaderResult("fA", "k1")]
    /\ obs = [p \in Procs |-> NoObs] /\ ~crashed

\* The second state SpecFair begins with, as Spec reaches it (but for
\* ncalls).
StaleReached ==
    /\ innerMap = ZeroMap /\ entries = <<>> /\ items = <<>> /\ cellinfo = <<>>
    /\ pc = <<"los_apply", "idle">>
    /\ arg[1] = [op |-> "GetOrLoad", k |-> "k2", f |-> "fA", v |-> 0]
    /\ arg[2].op = "Clear" /\ ret = << <<None>>, <<"cleared">> >>
    /\ rd = [p \in Procs |-> ZeroReadOnly] /\ todo = [p \in Procs |-> {}]
    /\ hist = [HInit EXCEPT !.clears = TRUE, !.nclear = 1, !.tick[2] = 1]
    /\ obs = [p \in Procs |-> NoObs]
    /\ set = ZeroSet
    /\ strm = ZeroStream
    /\ ~crashed

\* The state SpecWarm begins with, as Spec reaches it (but for ncalls).
WarmReached ==
    /\ innerMap.read.m["k1"] = 1 /\ ~innerMap.read.amended /\ innerMap.dirty = NilMap
    /\ innerMap.misses = 0 /\ ~innerMap.mu
    /\ entries = <<1>> /\ Len(items) = 1 /\ items[1].done
    /\ cellinfo = <<[k |-> "k1", invoked |-> <<"fA">>]>>
    /\ pc = [p \in Procs |-> "idle"]
    /\ arg[2] = NoArg /\ arg[1].op = "Keys" /\ ret[1] = <<"keys", <<"k1">> >>
    /\ hist = [HInit EXCEPT !.settled["k1"] = LoaderResult("fA", "k1"),
                            !.firm["k1"] = LoaderResult("fA", "k1")]
    /\ obs = [p \in Procs |-> NoObs]
    /\ set = ZeroSet
    /\ strm = ZeroStream

\* The number of items of the Set's list that equal e.
Occurrences(e) == Cardinality({i \in 1..Len(set.itemList) : set.itemList[i] = e})

\* The elements for which Contains returns true.
Members == {e \in Elems : set.elemMap[e] # NilAny}

\* C21: after any sequence of Add, Remove and Clear made one after the
\* other, the Set's item list holds exactly the elements for which Contains
\* is true, each exactly once, Size() is the number of distinct elements of
\* the Set, and Add(e) returns true exactly when e was not in the Set.
C21_SetListAgrees ==
    /\ [](/\ \A e \in Elems : Occurrences(e) = IF e \in Members THEN 1 ELSE 0
          /\ ListSize(set.itemList) = Cardinality(Members))
    /\ [][\A p \in Procs :
            /\ \A e \in Elems :
                   SetAdd(p, e) =>
                       ret'[p] = <<"bool", \A i \in 1..Len(set.itemList) :
                                               set.itemList[i] # e>>
            /\ SetSize(p) => ret'[p] = <<"int", Cardinality(Members)>>]_vars

\* Add of the second of a Set's two elements has returned false, and
\* Remove has been called for an element that is now absent.
C21_Witness ==
    /\ Len(set.itemList) = 2
    /\ \E p \in Procs :
           /\ arg[p].op = "Set.Add" /\ ret[p] = <<"bool", FALSE>>
           /\ set.itemList[2] = arg[p].v
    /\ \E q \in Procs : arg[q].op = "Set.Remove" /\ arg[q].v \notin Members

\* The left fold of f over the elements l, starting from initItem.
RECURSIVE FoldLeft(_, _, _)
FoldLeft(f, initItem, l) ==
    IF l = <<>> THEN initItem
    ELSE accumulator(f, FoldLeft(f, initItem, SubSeq(l, 1, Len(l) - 1)), l[Len(l)]).t

\* The accumulators that never return an error.
ErrorFree == {"sub", "shift"}

\* C22: on a Stream without an error and with an accumulator that returns
\* no error, ReduceWithInit(initItem, f) returns the left fold of f over the
\* elements starting from initItem, and a nil error; on an empty Stream that
\* is initItem.
C22_LeftFold ==
    \A p \in Procs :
        (arg[p].op = "ReduceWithInit" /\ strm.err = NoErr /\ arg[p].f \in ErrorFree)
            => ret[p] = <<FoldLeft(arg[p].f, arg[p].v, strm.elems), NoErr>>

\* What a cell whose loader panicked holds: the zero value and a nil error.
ZeroPair == [value |-> Zero, err |-> NoErr]

\* The loader p runs panics in this step.
Panics(p) == pc[p] = "loading" /\ arg[p].f = Panicker /\ pc'[p] = "idle"

SelfLoading(p) ==
    pc[p] = "loading" /\ arg[p].f = "fS" /\ hist'.clean[p] /\ ~hist'.clears

\* C28, the calls that never return: while a loader run for k calls
\* GetOrLoad(k, .) itself, k not being evicted, neither the call that runs
\* it, nor the call it makes, nor any other call of GetOrLoad(k, .) that has
\* or will get the same cell returns.
C28_SelfDeadlock ==
    [][\A p \in Procs : \A s \in Frames :
        (/\ SelfLoading(p)
         /\ pc[s] # "idle" /\ arg[s].op = "GetOrLoad" /\ arg[s].k = arg[p].k
         /\ item[s] \in {0, item[p]})
            => pc'[s] # "idle"]_vars

\* C28, the calls that return: under a fair scheduler a GetOrLoad(k, fO),
\* whose loader calls GetOrLoad(k2, fA) for the other key, returns.
C28_OtherKeyCompletes ==
    \A p \in Procs :
        (pc[p] # "idle" /\ arg[p].op = "GetOrLoad" /\ arg[p].f = "fO") ~> (pc[p] = "idle")

====
